---- MODULE Spec2Model ----
(***************************************************************************)
(* Model of the usage-centric risk pipeline of upgrade_analyzer:           *)
(* the risk model (intelligence/risk_scorer.py), the version distance      *)
(* (resolver.py), the changelog keyword analysis                           *)
(* (intelligence/changelog_nlp.py) and the configuration (config.py).      *)
(*                                                                         *)
(* Scores are exact: an integer where the code returns an integer-valued   *)
(* number, a normalised fraction <<num, den>> where the code divides.      *)
(* Weights are hundredths (30 stands for 0.3).                             *)
(***************************************************************************)
EXTENDS Integers, Sequences, FiniteSets, TLC

VARIABLES
    pc,                 \* "ready" before the call, "returned" after it
    dependency,         \* the Dependency argument
    usage_nodes,        \* the list of UsageNode
    api_changes,        \* the list of APIChange
    changelog_entries,  \* the list of ChangelogEntry (objects of the caller)
    _config,            \* config.py's global: <<>> is None, <<c>> a Config
    scorer,             \* <<>> before RiskScorer(), <<config>> after it
    result,             \* what the last call returned
    history,            \* the calculate_risk calls made on the scorer so far
    packages,           \* what loading each version of the package gives
    _cache,             \* cache.py's global: <<>> is None, <<c>> a Cache
    cache_files,        \* the files of the cache directories, by path
    now,                \* the clock, in hours
    differ,             \* <<>> before APIDiffer(), <<d>> after it
    outcome,            \* the way the last diff_versions call returned
    python_files,       \* the Python files of the project, as discovered
    analyzer,           \* <<>>, or <<a>> for an ASTAnalyzer a of one file
    workers,            \* the resolver invocation of each file run on its own
    merged,             \* the usage nodes the invocations have handed over
    stored,             \* by cache type and key: the last set not yet undone
    platform,           \* the locking the platform offers
    fds,                \* the open descriptors of the lock file
    flock,              \* <<>>, or <<fd>> for the descriptor holding the lock
    threads,            \* the cache operation each thread is in
    http                \* the _request_with_retry call in progress

vars == <<pc, dependency, usage_nodes, api_changes, changelog_entries,
          _config, scorer, result, history, packages, _cache, cache_files,
          now, differ, outcome, python_files, analyzer, workers, merged,
          stored, platform, fds, flock, threads, http>>

\* the state of the API differ and of what it reads
differ_vars == <<packages, _cache, cache_files, now, differ, outcome>>

\* the state of the code scanner and the files it reads
scan_vars == <<python_files, analyzer>>

\* the resolver invocations run side by side
worker_vars == <<workers, merged>>

\* the lock file of a cache key and the threads that take it
lock_vars == <<platform, fds, flock, threads>>

\* what the specifications of the risk pipeline never touch
rest_vars == <<worker_vars, stored, lock_vars, http>>

\* the state of the risk scorer
scorer_vars == <<api_changes, changelog_entries, _config, scorer, history>>

(***************************************************************************)
(* Bounds                                                                  *)
(***************************************************************************)
MaxUsageNodes == 2
MaxChanges == 3

\* all sequences over S of length at most n
SeqsUpTo(S, n) == UNION {[1..k -> S] : k \in 0..n}

Min(a, b) == IF a <= b THEN a ELSE b

Abs(a) == IF a < 0 THEN -a ELSE a

(***************************************************************************)
(* models.py                                                               *)
(***************************************************************************)
Severity == {"low", "medium", "high", "critical"}

ChangeType == {"removed", "modified", "deprecated", "added"}

Symbols == {"requests.get", "requests.post"}

UsageNode == [package_name : {"requests"}, symbol_path : Symbols]

APIChange == [symbol_name : Symbols, change_type : ChangeType]

NoResult == [kind |-> "none"]

(***************************************************************************)
(* RiskScorer._calculate_usage_impact                                      *)
(***************************************************************************)
\* used_symbols = {node.symbol_path for node in usage_nodes}
UsedSymbols(nodes) == {nodes[i].symbol_path : i \in 1..Len(nodes)}

\* the loop over api_changes: the three counters after the first k changes
RECURSIVE CountChanges(_, _, _)
CountChanges(changes, used, k) ==
    IF k = 0
    THEN [breaking_changes |-> 0, moderate_changes |-> 0, deprecations |-> 0]
    ELSE LET c == CountChanges(changes, used, k - 1)
             change == changes[k]
         IN  IF change.symbol_name \in used
             THEN IF change.change_type = "removed"
                  THEN [c EXCEPT !.breaking_changes = @ + 1]
                  ELSE IF change.change_type = "modified"
                  THEN [c EXCEPT !.moderate_changes = @ + 1]
                  ELSE IF change.change_type = "deprecated"
                  THEN [c EXCEPT !.deprecations = @ + 1]
                  ELSE c
             ELSE c

\* mutant: a modified symbol is looked at before a removed one
UsageScoreOfCounts_ModifiedFirst(c) ==
    IF c.moderate_changes > 0 THEN Min(70 + c.moderate_changes * 10, 90)
    ELSE IF c.breaking_changes > 0 THEN 100
    ELSE IF c.deprecations > 0 THEN Min(40 + c.deprecations * 10, 60)
    ELSE 10

\* mutant: the caps of the modified and deprecated scores are missing
UsageScoreOfCounts_NoCap(c) ==
    IF c.breaking_changes > 0 THEN 100
    ELSE IF c.moderate_changes > 0 THEN 70 + c.moderate_changes * 10
    ELSE IF c.deprecations > 0 THEN 40 + c.deprecations * 10
    ELSE 10

\* lines 164-179: the score from the three counters
UsageScoreOfCounts(c) ==
    IF c.breaking_changes > 0 THEN 100
    ELSE IF c.moderate_changes > 0 THEN Min(70 + c.moderate_changes * 10, 90)
    ELSE IF c.deprecations > 0 THEN Min(40 + c.deprecations * 10, 60)
    ELSE 10

\* mutant: the early return for an empty list of changes is missing
_calculate_usage_impact_NoEarlyReturn(nodes, changes) ==
    UsageScoreOfCounts(CountChanges(changes, UsedSymbols(nodes), Len(changes)))

_calculate_usage_impact(nodes, changes) ==
    IF changes = <<>>
    THEN 0
    ELSE UsageScoreOfCounts(
             CountChanges(changes, UsedSymbols(nodes), Len(changes)))

(***************************************************************************)
(* Version strings                                                         *)
(*                                                                         *)
(* A version string is the sequence of its dot-separated segments; a       *)
(* segment is its leading digits (as a number) and the text after them:    *)
(* "2.28.0" is <<2,"">>, <<28,"">>, <<0,"">>; "1.0rc1" is <<1,"">>,        *)
(* <<0,"rc1">>; "1.x" is <<1,"">>, <<0,"x">>; "" is <<>>.                  *)
(* An optional value is None (<<>>) or Some(v) (<<v>>).                    *)
(***************************************************************************)
MaxSegments == 3

Components == {0, 1, 6}

Segment ==
    [digits : Components, rest : {""}]
        \cup {[digits |-> 0, rest |-> "rc1"], [digits |-> 0, rest |-> "x"]}

VersionString == SeqsUpTo(Segment, MaxSegments)

None == <<>>

Some(v) == <<v>>

\* packaging.version.parse: the release tuple, or InvalidVersion (ok = FALSE).
\* Every segment must be a number; only the last one may carry a
\* pre-release label, which is not part of the release tuple.
ParseVersion(s) ==
    IF /\ Len(s) >= 1
       /\ \A i \in 1..(Len(s) - 1) : s[i].rest = ""
       /\ s[Len(s)].rest \in {"", "rc1"}
    THEN [ok |-> TRUE, release |-> [i \in 1..Len(s) |-> s[i].digits]]
    ELSE [ok |-> FALSE, release |-> <<>>]

\* v_release[i] if len(v_release) > i else 0   (i counted from 0)
ReleaseAt(release, i) == IF Len(release) > i THEN release[i + 1] ELSE 0

ZeroDistance == [major |-> 0, minor |-> 0, patch |-> 0]

\* mutant: the differences are signed (abs is missing)
calculate_version_distance_NoAbs(version1, version2) ==
    LET v1 == ParseVersion(version1)
        v2 == ParseVersion(version2)
    IN  IF ~v1.ok \/ ~v2.ok
        THEN ZeroDistance
        ELSE [major |-> ReleaseAt(v2.release, 0) - ReleaseAt(v1.release, 0),
              minor |-> ReleaseAt(v2.release, 1) - ReleaseAt(v1.release, 1),
              patch |-> ReleaseAt(v2.release, 2) - ReleaseAt(v1.release, 2)]

\* DependencyResolver.calculate_version_distance
calculate_version_distance(version1, version2) ==
    LET v1 == ParseVersion(version1)
        v2 == ParseVersion(version2)
    IN  IF ~v1.ok \/ ~v2.ok
        THEN ZeroDistance            \* except InvalidVersion
        ELSE [major |-> Abs(ReleaseAt(v2.release, 0) - ReleaseAt(v1.release, 0)),
              minor |-> Abs(ReleaseAt(v2.release, 1) - ReleaseAt(v1.release, 1)),
              patch |-> Abs(ReleaseAt(v2.release, 2) - ReleaseAt(v1.release, 2))]

(***************************************************************************)
(* RiskScorer._calculate_semver_risk                                       *)
(***************************************************************************)
\* mutant: the cap of the major-version score is missing
SemverScoreOfDistance_NoMajorCap(distance) ==
    IF distance.major > 0 THEN 80 + (distance.major - 1) * 20
    ELSE IF distance.minor > 0 THEN Min(40 + distance.minor * 5, 60)
    ELSE Min(10 + distance.patch * 2, 20)

\* lines 110-127: the score from the three deltas
SemverScoreOfDistance(distance) ==
    IF distance.major > 0 THEN Min(80 + (distance.major - 1) * 20, 100)
    ELSE IF distance.minor > 0 THEN Min(40 + distance.minor * 5, 60)
    ELSE Min(10 + distance.patch * 2, 20)

\* `not dependency.target_version`: None or the empty string
_calculate_semver_risk(dep) ==
    IF dep.target_version = None \/ dep.target_version = Some(<<>>)
    THEN 0
    ELSE SemverScoreOfDistance(
             calculate_version_distance(dep.current_version,
                                        dep.target_version[1]))

Dependency ==
    [name : {"requests"},
     current_version : VersionString,
     target_version : {None} \cup {Some(v) : v \in VersionString}]

(***************************************************************************)
(* Exact fractions <<num, den>>, den > 0, in lowest terms                  *)
(***************************************************************************)
RECURSIVE GCD(_, _)
GCD(a, b) == IF b = 0 THEN a ELSE GCD(b, a % b)

Rat(n, d) == LET g == GCD(n, d) IN IF g = 0 THEN <<0, 1>> ELSE <<n \div g, d \div g>>

RatAdd(x, y) == Rat(x[1] * y[2] + y[1] * x[2], x[2] * y[2])

RatDiv(x, n) == Rat(x[1], x[2] * n)

RatLeq(x, y) == x[1] * y[2] <= y[1] * x[2]

RatMin(x, y) == IF RatLeq(x, y) THEN x ELSE y

(***************************************************************************)
(* Strings                                                                 *)
(***************************************************************************)
\* str.lower() of one character
LowerChar(c) ==
    CASE c = "A" -> "a"
      [] c = "B" -> "b"
      [] c = "C" -> "c"
      [] c = "D" -> "d"
      [] c = "E" -> "e"
      [] c = "F" -> "f"
      [] c = "G" -> "g"
      [] c = "H" -> "h"
      [] c = "I" -> "i"
      [] c = "J" -> "j"
      [] c = "K" -> "k"
      [] c = "L" -> "l"
      [] c = "M" -> "m"
      [] c = "N" -> "n"
      [] c = "O" -> "o"
      [] c = "P" -> "p"
      [] c = "Q" -> "q"
      [] c = "R" -> "r"
      [] c = "S" -> "s"
      [] c = "T" -> "t"
      [] c = "U" -> "u"
      [] c = "V" -> "v"
      [] c = "W" -> "w"
      [] c = "X" -> "x"
      [] c = "Y" -> "y"
      [] c = "Z" -> "z"
      [] OTHER -> c

\* str.lower()
RECURSIVE Lower(_)
Lower(str) ==
    IF Len(str) = 0
    THEN ""
    ELSE LowerChar(SubSeq(str, 1, 1)) \o Lower(SubSeq(str, 2, Len(str)))

\* `keyword in text`: keyword is a substring of text
Contains(text, keyword) ==
    \E i \in 1..(Len(text) - Len(keyword) + 1) :
        SubSeq(text, i, i + Len(keyword) - 1) = keyword

(***************************************************************************)
(* ChangelogAnalyzer (intelligence/changelog_nlp.py)                       *)
(***************************************************************************)
CRITICAL_KEYWORDS ==
    <<"removed", "deleted", "breaking change", "breaking", "incompatible",
      "no longer supported", "no longer", "dropped support", "dropped">>

HIGH_KEYWORDS ==
    <<"deprecated", "renamed", "changed behavior", "behavior change",
      "major change", "migration required", "must migrate">>

MEDIUM_KEYWORDS ==
    <<"changed", "modified", "updated", "migrated", "refactored", "replaced">>

LOW_KEYWORDS ==
    <<"added", "improved", "enhanced", "optimized", "fixed", "bugfix">>

\* one `for keyword in LIST: if keyword in content_lower: keywords.append(...)`
RECURSIVE MatchKeywords(_, _, _, _)
MatchKeywords(list, severity, text, k) ==
    IF k = 0
    THEN <<>>
    ELSE LET before == MatchKeywords(list, severity, text, k - 1)
         IN  IF Contains(text, list[k])
             THEN Append(before, <<list[k], severity>>)
             ELSE before

\* mutant: the keywords found are appended to those the entry already holds
analyze_changelog_KeepsOld(entry) ==
    LET content_lower == Lower(entry.content)
    IN  [entry EXCEPT !.severity_keywords =
            entry.severity_keywords
            \o MatchKeywords(CRITICAL_KEYWORDS, "critical", content_lower, Len(CRITICAL_KEYWORDS))
            \o MatchKeywords(HIGH_KEYWORDS, "high", content_lower, Len(HIGH_KEYWORDS))
            \o MatchKeywords(MEDIUM_KEYWORDS, "medium", content_lower, Len(MEDIUM_KEYWORDS))
            \o MatchKeywords(LOW_KEYWORDS, "low", content_lower, Len(LOW_KEYWORDS))]

\* mutant: the keywords are looked up in entry.content, not in its lower case
analyze_changelog_NoLower(entry) ==
    [entry EXCEPT !.severity_keywords =
        MatchKeywords(CRITICAL_KEYWORDS, "critical", entry.content, Len(CRITICAL_KEYWORDS))
        \o MatchKeywords(HIGH_KEYWORDS, "high", entry.content, Len(HIGH_KEYWORDS))
        \o MatchKeywords(MEDIUM_KEYWORDS, "medium", entry.content, Len(MEDIUM_KEYWORDS))
        \o MatchKeywords(LOW_KEYWORDS, "low", entry.content, Len(LOW_KEYWORDS))]

\* ChangelogAnalyzer.analyze_changelog: the entry with severity_keywords
\* assigned (the entry object itself is updated and returned)
analyze_changelog(entry) ==
    LET content_lower == Lower(entry.content)
    IN  [entry EXCEPT !.severity_keywords =
            MatchKeywords(CRITICAL_KEYWORDS, "critical", content_lower, Len(CRITICAL_KEYWORDS))
            \o MatchKeywords(HIGH_KEYWORDS, "high", content_lower, Len(HIGH_KEYWORDS))
            \o MatchKeywords(MEDIUM_KEYWORDS, "medium", content_lower, Len(MEDIUM_KEYWORDS))
            \o MatchKeywords(LOW_KEYWORDS, "low", content_lower, Len(LOW_KEYWORDS))]

\* severity_weights.get(severity, 0)
severity_weights(severity) ==
    CASE severity = "critical" -> 100
      [] severity = "high" -> 70
      [] severity = "medium" -> 40
      [] severity = "low" -> 10
      [] OTHER -> 0

\* the loop `for _, severity in entry.severity_keywords: total_weight += ...`
RECURSIVE TotalWeight(_, _)
TotalWeight(keywords, k) ==
    IF k = 0 THEN 0
    ELSE TotalWeight(keywords, k - 1) + severity_weights(keywords[k][2])

\* ChangelogAnalyzer.calculate_changelog_severity_score
calculate_changelog_severity_score(entry) ==
    IF entry.severity_keywords = <<>>
    THEN Rat(0, 1)
    ELSE LET keyword_count == Len(entry.severity_keywords)
             total_weight == TotalWeight(entry.severity_keywords, keyword_count)
         IN  RatMin(Rat(total_weight, keyword_count), Rat(100, 1))

\* ChangelogAnalyzer.analyze_multiple_entries
analyze_multiple_entries(entries) ==
    [i \in 1..Len(entries) |-> analyze_changelog(entries[i])]

\* sum(scores)
RECURSIVE SumScores(_, _)
SumScores(scores, k) ==
    IF k = 0 THEN Rat(0, 1) ELSE RatAdd(SumScores(scores, k - 1), scores[k])

\* RiskScorer._calculate_changelog_severity
_calculate_changelog_severity(entries) ==
    IF entries = <<>>
    THEN Rat(0, 1)
    ELSE LET analyzed_entries == analyze_multiple_entries(entries)
             scores == [i \in 1..Len(analyzed_entries) |->
                           calculate_changelog_severity_score(analyzed_entries[i])]
         IN  IF scores # <<>>
             THEN RatDiv(SumScores(scores, Len(scores)), Len(scores))
             ELSE Rat(0, 1)

(***************************************************************************)
(* Changelog entries of the model                                          *)
(***************************************************************************)
MaxFragments == 1
MaxEntries == 2

Fragments == <<"BREAKING change", "Changed behavior", "bugfix", "typo">>

\* the fragments at the positions in I, in the order of the list, separated
\* by blanks
RECURSIVE Join(_)
Join(I) ==
    IF I = {} THEN ""
    ELSE LET i == CHOOSE i \in I : \A j \in I : i <= j
         IN  IF I = {i} THEN Fragments[i] ELSE Fragments[i] \o " " \o Join(I \ {i})

\* a text is made of at most MaxFragments of the fragments
Contents ==
    {Join(I) : I \in {S \in SUBSET (DOMAIN Fragments) : Cardinality(S) <= MaxFragments}}

\* severity_keywords of an entry before the call: the default (empty), or
\* what an earlier analysis or the caller left there
InitialKeywords == {<<>>, <<<<"deleted", "critical">>>>}

ChangelogEntry ==
    [version : {"1.0.0"}, content : Contents, severity_keywords : InitialKeywords]

(***************************************************************************)
(* Config (config.py)                                                      *)
(*                                                                         *)
(* A configuration value is a dict (a function from keys to values) or a   *)
(* scalar.  Of the default sections, "cache" and "risk_scoring" are        *)
(* modelled; nothing modelled here reads "analysis", "output" or "ci".     *)
(***************************************************************************)
Dict(items) == [is_dict |-> TRUE, items |-> items, value |-> 0]

Scalar(v) == [is_dict |-> FALSE, items |-> <<>>, value |-> v]

\* Config._get_defaults
_get_defaults ==
    [cache |->
        Dict([directory |-> Scalar("~/.upgrade_analyzer/cache"),
              pypi_ttl_hours |-> Scalar(24),
              changelog_ttl_days |-> Scalar(7),
              enabled |-> Scalar(TRUE)]),
     risk_scoring |->
        Dict([semver_weight |-> Scalar(30),
              usage_weight |-> Scalar(50),
              changelog_weight |-> Scalar(20),
              thresholds |->
                  Dict([critical |-> Scalar(80), high |-> Scalar(60),
                        medium |-> Scalar(30), low |-> Scalar(0)])])]

\* dict.update: the keys of other replace those of d, whole values at a time
Update(d, other) ==
    [k \in (DOMAIN d) \cup (DOMAIN other) |->
        IF k \in DOMAIN other THEN other[k] ELSE d[k]]

\* The config_file argument: no path (None), or a path with the state of the
\* file behind it: whether it exists, whether toml.load parses it, and the
\* parsed content.
NoConfigFile == [given |-> FALSE, exists |-> FALSE, toml_ok |-> FALSE, data |-> <<>>]

ConfigFile(data) == [given |-> TRUE, exists |-> TRUE, toml_ok |-> TRUE, data |-> data]

ConfigFiles ==
    {NoConfigFile,
     [given |-> TRUE, exists |-> FALSE, toml_ok |-> FALSE, data |-> <<>>],
     [given |-> TRUE, exists |-> TRUE, toml_ok |-> FALSE, data |-> <<>>],
     \* [cache] enabled = false
     ConfigFile([cache |-> Dict([enabled |-> Scalar(FALSE)])]),
     \* [risk_scoring] semver_weight = 0.5
     ConfigFile([risk_scoring |-> Dict([semver_weight |-> Scalar(50)])]),
     \* [risk_scoring] with the three weights 0.2 / 0.6 / 0.2
     ConfigFile([risk_scoring |->
                    Dict([semver_weight |-> Scalar(20),
                          usage_weight |-> Scalar(60),
                          changelog_weight |-> Scalar(20)])]),
     \* [risk_scoring] with the three weights 0.4 / 0.4 / 0.4
     ConfigFile([risk_scoring |->
                    Dict([semver_weight |-> Scalar(40),
                          usage_weight |-> Scalar(40),
                          changelog_weight |-> Scalar(40)])]),
     \* risk_scoring = 1
     ConfigFile([risk_scoring |-> Scalar(1)])}

\* Config._load_config
_load_config(config_file) ==
    IF config_file.given /\ config_file.exists
    THEN IF config_file.toml_ok
         THEN Update(_get_defaults, config_file.data)
         ELSE _get_defaults          \* except TomlDecodeError: warning only
    ELSE _get_defaults

\* str.split(sep)
RECURSIVE Split(_, _)
Split(str, sep) ==
    LET at == {i \in 1..Len(str) : SubSeq(str, i, i) = sep}
    IN  IF at = {}
        THEN <<str>>
        ELSE LET i == CHOOSE i \in at : \A j \in at : i <= j
             IN  <<SubSeq(str, 1, i - 1)>> \o Split(SubSeq(str, i + 1, Len(str)), sep)

\* the loop of Config.get over the keys
RECURSIVE GetKeys(_, _, _)
GetKeys(value, keys, default) ==
    IF keys = <<>>
    THEN value
    ELSE IF value.is_dict /\ Head(keys) \in DOMAIN value.items
         THEN GetKeys(value.items[Head(keys)], Tail(keys), default)
         ELSE default

\* Config.get
ConfigGet(config, key, default) == GetKeys(Dict(config), Split(key, "."), default)

\* float(...)
Float(v) == v.value

\* Config.semver_weight
semver_weight(config) == Float(ConfigGet(config, "risk_scoring.semver_weight", Scalar(30)))

\* Config.usage_weight
usage_weight(config) == Float(ConfigGet(config, "risk_scoring.usage_weight", Scalar(50)))

\* Config.changelog_weight
changelog_weight(config) ==
    Float(ConfigGet(config, "risk_scoring.changelog_weight", Scalar(20)))

\* get_config: the global after the call
get_config(global, config_file) ==
    IF global = None THEN Some(_load_config(config_file)) ELSE global

(***************************************************************************)
(* RiskScore.from_score and RiskScorer.calculate_risk                      *)
(***************************************************************************)
\* mutant: the thresholds are exclusive
from_score_Exclusive(score) ==
    IF ~RatLeq(score, Rat(80, 1)) THEN "critical"
    ELSE IF ~RatLeq(score, Rat(60, 1)) THEN "high"
    ELSE IF ~RatLeq(score, Rat(30, 1)) THEN "medium"
    ELSE "low"

\* RiskScore.from_score
from_score(score) ==
    IF RatLeq(Rat(80, 1), score) THEN "critical"
    ELSE IF RatLeq(Rat(60, 1), score) THEN "high"
    ELSE IF RatLeq(Rat(30, 1), score) THEN "medium"
    ELSE "low"

\* f.score * f.weight, the weight being hundredths
Weighted(f) == Rat(f.score[1] * f.weight, f.score[2] * 100)

\* sum(f.score * f.weight for f in factors)
RECURSIVE SumWeighted(_, _)
SumWeighted(factors, k) ==
    IF k = 0 THEN Rat(0, 1)
    ELSE RatAdd(SumWeighted(factors, k - 1), Weighted(factors[k]))

\* the three RiskFactor appended by calculate_risk
RiskFactors(dep, nodes, changes, entries, w1, w2, w3) ==
    <<[name |-> "SemVer Distance",
       score |-> Rat(_calculate_semver_risk(dep), 1),
       weight |-> w1,
       description |-> [text |-> "Version jump from {} to {}",
                        args |-> <<dep.current_version, dep.target_version>>]],
      [name |-> "Usage Impact",
       score |-> Rat(_calculate_usage_impact(nodes, changes), 1),
       weight |-> w2,
       description |-> [text |-> "{} API changes affecting {} usage points",
                        args |-> <<Len(changes), Len(nodes)>>]],
      [name |-> "Changelog Severity",
       score |-> _calculate_changelog_severity(entries),
       weight |-> w3,
       description |-> [text |-> "Based on {} changelog entries",
                        args |-> <<Len(entries)>>]]>>

RiskScoreOf(factors) ==
    LET total_score == SumWeighted(factors, Len(factors))
    IN  [kind |-> "risk",
         total_score |-> total_score,
         severity |-> from_score(total_score),
         factors |-> factors]

\* mutant: the usage factor carries the semver weight and the semver factor
\* the usage weight
calculate_risk_SwappedWeights(config, dep, nodes, changes, entries) ==
    RiskScoreOf(RiskFactors(dep, nodes, changes, entries,
                            usage_weight(config), semver_weight(config),
                            changelog_weight(config)))

\* RiskScorer.calculate_risk: the RiskScore returned
calculate_risk(config, dep, nodes, changes, entries) ==
    RiskScoreOf(RiskFactors(dep, nodes, changes, entries,
                            semver_weight(config), usage_weight(config),
                            changelog_weight(config)))

(***************************************************************************)
(* FileLock (cache.py).  The lock file of a key has open descriptors, and  *)
(* at most one of them holds the exclusive lock of the platform            *)
(* (fcntl.flock on Unix, msvcrt.locking on Windows); a platform that has   *)
(* neither locks nothing.  A FileLock is its _lock_fd.                     *)
(***************************************************************************)
Platforms == {"win32", "fcntl", "none"}

\* FileLock(lock_file)
NewFileLock == [_lock_fd |-> None]

\* os.open: the lowest descriptor that is free
NewFd(open) ==
    CHOOSE n \in 3..(3 + Cardinality(open)) :
        n \notin open /\ \A m \in 3..(n - 1) : m \in open

\* one pass of the loop of FileLock.acquire: the descriptor is opened and
\* the lock tried without blocking; acquired says whether the pass returned
\* True, and when it did not the descriptor is closed again
acquire_pass(self, os_platform, open, holder) ==
    LET fd == NewFd(open)
    IN  IF os_platform = "none"
        THEN [self |-> [self EXCEPT !._lock_fd = Some(fd)],
              open |-> open \cup {fd}, holder |-> holder, acquired |-> TRUE]
        ELSE IF holder = None
        THEN [self |-> [self EXCEPT !._lock_fd = Some(fd)],
              open |-> open \cup {fd}, holder |-> Some(fd), acquired |-> TRUE]
        ELSE [self |-> [self EXCEPT !._lock_fd = None],
              open |-> open, holder |-> holder, acquired |-> FALSE]

\* mutant: the lock is forgotten, its descriptor left open
FileLock_release_KeepsDescriptor(self, open, holder) ==
    [self |-> [self EXCEPT !._lock_fd = None], open |-> open, holder |-> holder]

\* FileLock.release: the lock given back and the descriptor closed
FileLock_release(self, open, holder) ==
    IF self._lock_fd # None
    THEN [self |-> [self EXCEPT !._lock_fd = None],
          open |-> open \ {self._lock_fd[1]},
          holder |-> IF holder = self._lock_fd THEN None ELSE holder]
    ELSE [self |-> self, open |-> open, holder |-> holder]


(***************************************************************************)
(* Cache (cache.py).  The files of the cache directories are a function    *)
(* from paths <<directory, key>> to files: whether the content is JSON,    *)
(* the document it holds and the modification time in hours.               *)
(***************************************************************************)
CacheTypes == {"pypi", "changelog", "api_diff"}

\* dict.get(key, default)
DictGet(dict, key, default) ==
    IF key \in DOMAIN dict THEN dict[key] ELSE default

\* Config.cache_enabled
cache_enabled(config) ==
    LET value == ConfigGet(config, "cache.enabled", Scalar(TRUE))
    IN  IF value.is_dict THEN DOMAIN value.items # {} ELSE value.value = TRUE

\* Cache(): self.enabled = config.cache_enabled
NewCache(config) == [enabled |-> cache_enabled(config)]

\* Cache._get_directory: Some(directory) or None
_get_directory(cache_type) ==
    IF cache_type \in CacheTypes THEN Some(cache_type) ELSE None

\* mutant: every cache type keeps its files in the directory of pypi
_get_cache_file_OneDirectory(directory, key) == <<"pypi", key>>

\* Cache._get_cache_file
_get_cache_file(directory, key) == <<directory, key>>

\* mutant: a ttl of 0 is a ttl like any other
_is_expired_NoZeroCase(files, cache_file, ttl_hours, clock) ==
    IF cache_file \notin DOMAIN files
    THEN TRUE
    ELSE clock > files[cache_file].mtime + ttl_hours

\* Cache._is_expired
_is_expired(files, cache_file, ttl_hours, clock) ==
    IF ttl_hours = 0
    THEN FALSE
    ELSE IF cache_file \notin DOMAIN files
         THEN TRUE
         ELSE clock > files[cache_file].mtime + ttl_hours

\* the files without the one at path
Unlink(files, path) == [f \in (DOMAIN files) \ {path} |-> files[f]]

\* the files with a file written at path
Replace(files, path, file) ==
    [f \in (DOMAIN files) \cup {path} |-> IF f = path THEN file ELSE files[f]]

\* Cache.get: the value returned (None, or Some(value)) and the files left
cache_get(cache, files, key, cache_type, ttl_hours, clock) ==
    IF ~cache.enabled
    THEN [value |-> None, files |-> files]
    ELSE IF _get_directory(cache_type) = None
    THEN [value |-> None, files |-> files]
    ELSE LET cache_file == _get_cache_file(_get_directory(cache_type)[1], key)
         IN  IF _is_expired(files, cache_file, ttl_hours, clock)
             THEN [value |-> None, files |-> files]
             ELSE IF cache_file \notin DOMAIN files
             THEN [value |-> None, files |-> files]       \* FileNotFoundError
             ELSE IF ~files[cache_file].json
             THEN [value |-> None, files |-> Unlink(files, cache_file)]
             ELSE [value |-> DictGet(files[cache_file].data, "value", None),
                   files |-> files]

\* json.dump(data, f) writes the value: a list of dicts of strings is
\* written, a list that holds an object of a class raises TypeError
JsonSerializable(value) ==
    \A i \in DOMAIN value : "object" \notin DOMAIN value[i]

\* Cache.set: what it returns and the files left.  The value goes to the
\* temporary file beside the cache file, which then replaces the cache
\* file; when json.dump raises, the cache file is as it was (the temporary
\* file, which no operation reads and the next set truncates, is left out).
cache_set(cache, files, key, value, cache_type, clock) ==
    IF ~cache.enabled
    THEN [ok |-> FALSE, files |-> files]
    ELSE IF _get_directory(cache_type) = None
    THEN [ok |-> FALSE, files |-> files]
    ELSE IF ~JsonSerializable(value)
    THEN [ok |-> FALSE, files |-> files]                 \* TypeError
    ELSE LET cache_file == _get_cache_file(_get_directory(cache_type)[1], key)
             data == [key |-> key, value |-> Some(value), cached_at |-> clock]
         IN  [ok |-> TRUE,
              files |-> Replace(files, cache_file,
                                [json |-> TRUE, data |-> data, mtime |-> clock])]

\* Cache.delete
cache_delete(cache, files, key, cache_type) ==
    IF ~cache.enabled
    THEN [ok |-> FALSE, files |-> files]
    ELSE IF _get_directory(cache_type) = None
    THEN [ok |-> FALSE, files |-> files]
    ELSE [ok |-> TRUE,
          files |-> Unlink(files, _get_cache_file(_get_directory(cache_type)[1], key))]

\* Cache.clear: cache_type is None (all) or Some(type)
cache_clear(cache, files, cache_type) ==
    IF ~cache.enabled
    THEN [deleted_count |-> 0, files |-> files]
    ELSE LET directories ==
                 IF cache_type = None
                 THEN CacheTypes
                 ELSE IF _get_directory(cache_type[1]) = None
                      THEN {}
                      ELSE {_get_directory(cache_type[1])[1]}
             deleted == {f \in DOMAIN files : f[1] \in directories}
         IN  [deleted_count |-> Cardinality(deleted),
              files |-> [f \in (DOMAIN files) \ deleted |-> files[f]]]

\* cache_key = f"api_diff:{package_name}:{old_version}:{new_version}"
CacheKey(package_name, old_version, new_version) ==
    <<"api_diff", package_name, old_version, new_version>>

\* get_cache: the global after the call, given the configuration
get_cache(global, config) ==
    IF global = None THEN Some(NewCache(config)) ELSE global

(***************************************************************************)
(* APIDiffer (intelligence/api_differ.py): the comparison of two loaded    *)
(* API trees.  An object of a tree is a record: its members by name,       *)
(* whether it has parameters and their texts, the text str() gives for     *)
(* it, the text of its docstring (None without one) and the texts of its   *)
(* decorators.                                                             *)
(***************************************************************************)
\* ", ".join(texts)
RECURSIVE JoinComma(_)
JoinComma(texts) ==
    IF texts = <<>> THEN ""
    ELSE IF Len(texts) = 1 THEN texts[1]
    ELSE texts[1] \o ", " \o JoinComma(Tail(texts))

\* the loop `for part in parts[1:]` of _get_symbol, from position k on
RECURSIVE WalkMembers(_, _, _)
WalkMembers(obj, parts, k) ==
    IF k > Len(parts)
    THEN Some(obj)
    ELSE IF parts[k] \in DOMAIN obj.members
         THEN WalkMembers(obj.members[parts[k]], parts, k + 1)
         ELSE None

\* APIDiffer._get_symbol: Some(object) or None
_get_symbol(api, symbol_path) ==
    IF api = None
    THEN None
    ELSE WalkMembers(api[1], Split(symbol_path, "."), 2)

\* APIDiffer._get_signature of an object
_get_signature(symbol) ==
    IF symbol.has_parameters
    THEN "(" \o JoinComma(symbol.parameters) \o ")"
    ELSE symbol.text

\* APIDiffer._is_deprecated of an object
_is_deprecated(symbol) ==
    \/ /\ symbol.docstring # None
       /\ Contains(Lower(symbol.docstring[1]), "deprecated")
    \/ \E i \in DOMAIN symbol.decorators :
          Contains(Lower(symbol.decorators[i]), "deprecated")

\* the APIChange records of the model carry the five fields of the dataclass
Change(symbol_name, change_type, old_signature, new_signature, description) ==
    [symbol_name |-> symbol_name,
     change_type |-> change_type,
     old_signature |-> old_signature,
     new_signature |-> new_signature,
     description |-> description]

\* {node.symbol_path for node in used_symbols}
SymbolPaths(used_symbols) ==
    {used_symbols[i].symbol_path : i \in DOMAIN used_symbols}

\* the orders in which a set of strings can be iterated: one enumeration of
\* all the paths, of which a set yields its own members in that order
Orders(paths) ==
    {order \in [1..Cardinality(paths) -> paths] :
        \A i, j \in DOMAIN order : order[i] = order[j] => i = j}

\* the members of a set of paths in the iteration order
RECURSIVE Iterate(_, _, _)
Iterate(paths, order, k) ==
    IF k = 0 THEN <<>>
    ELSE IF order[k] \in paths
         THEN Append(Iterate(paths, order, k - 1), order[k])
         ELSE Iterate(paths, order, k - 1)

\* mutant: a symbol present in both versions is reported as Modified
\* whether or not its signature changed
ChangesOfSymbol_AlwaysModified(old_api, new_api, symbol_path) ==
    LET old_symbol == _get_symbol(old_api, symbol_path)
        new_symbol == _get_symbol(new_api, symbol_path)
    IN  IF old_symbol # None /\ new_symbol = None
        THEN <<Change(symbol_path, "removed",
                      Some(_get_signature(old_symbol[1])), None,
                      "Symbol '" \o symbol_path \o "' was removed")>>
        ELSE IF old_symbol # None /\ new_symbol # None
        THEN LET old_sig == _get_signature(old_symbol[1])
                 new_sig == _get_signature(new_symbol[1])
             IN  <<Change(symbol_path, "modified", Some(old_sig), Some(new_sig),
                          "Signature changed for '" \o symbol_path \o "'")>>
                 \o (IF _is_deprecated(new_symbol[1])
                     THEN <<Change(symbol_path, "deprecated", None, Some(new_sig),
                                   "'" \o symbol_path \o "' is now deprecated")>>
                     ELSE <<>>)
        ELSE <<>>

\* mutant: a removed symbol is also compared with the empty signature
ChangesOfSymbol_RemovedAndModified(old_api, new_api, symbol_path) ==
    LET old_symbol == _get_symbol(old_api, symbol_path)
        new_symbol == _get_symbol(new_api, symbol_path)
    IN  IF old_symbol # None /\ new_symbol = None
        THEN <<Change(symbol_path, "removed",
                      Some(_get_signature(old_symbol[1])), None,
                      "Symbol '" \o symbol_path \o "' was removed"),
               Change(symbol_path, "modified",
                      Some(_get_signature(old_symbol[1])), Some(""),
                      "Signature changed for '" \o symbol_path \o "'")>>
        ELSE IF old_symbol # None /\ new_symbol # None
        THEN LET old_sig == _get_signature(old_symbol[1])
                 new_sig == _get_signature(new_symbol[1])
             IN  (IF old_sig # new_sig
                  THEN <<Change(symbol_path, "modified", Some(old_sig), Some(new_sig),
                                "Signature changed for '" \o symbol_path \o "'")>>
                  ELSE <<>>)
                 \o (IF _is_deprecated(new_symbol[1])
                     THEN <<Change(symbol_path, "deprecated", None, Some(new_sig),
                                   "'" \o symbol_path \o "' is now deprecated")>>
                     ELSE <<>>)
        ELSE <<>>

\* mutant: a symbol that only the new version has is reported as Added
ChangesOfSymbol_ReportsAdded(old_api, new_api, symbol_path) ==
    LET old_symbol == _get_symbol(old_api, symbol_path)
        new_symbol == _get_symbol(new_api, symbol_path)
    IN  IF old_symbol # None /\ new_symbol = None
        THEN <<Change(symbol_path, "removed",
                      Some(_get_signature(old_symbol[1])), None,
                      "Symbol '" \o symbol_path \o "' was removed")>>
        ELSE IF old_symbol # None /\ new_symbol # None
        THEN LET old_sig == _get_signature(old_symbol[1])
                 new_sig == _get_signature(new_symbol[1])
             IN  (IF old_sig # new_sig
                  THEN <<Change(symbol_path, "modified", Some(old_sig), Some(new_sig),
                                "Signature changed for '" \o symbol_path \o "'")>>
                  ELSE <<>>)
                 \o (IF _is_deprecated(new_symbol[1])
                     THEN <<Change(symbol_path, "deprecated", None, Some(new_sig),
                                   "'" \o symbol_path \o "' is now deprecated")>>
                     ELSE <<>>)
        ELSE IF new_symbol # None
        THEN <<Change(symbol_path, "added", None,
                      Some(_get_signature(new_symbol[1])), "")>>
        ELSE <<>>

\* the body of the loop of _detect_changes: the records appended for one
\* symbol path
ChangesOfSymbol(old_api, new_api, symbol_path) ==
    LET old_symbol == _get_symbol(old_api, symbol_path)
        new_symbol == _get_symbol(new_api, symbol_path)
    IN  IF old_symbol # None /\ new_symbol = None
        THEN <<Change(symbol_path, "removed",
                      Some(_get_signature(old_symbol[1])), None,
                      "Symbol '" \o symbol_path \o "' was removed")>>
        ELSE IF old_symbol # None /\ new_symbol # None
        THEN LET old_sig == _get_signature(old_symbol[1])
                 new_sig == _get_signature(new_symbol[1])
             IN  (IF old_sig # new_sig
                  THEN <<Change(symbol_path, "modified", Some(old_sig), Some(new_sig),
                                "Signature changed for '" \o symbol_path \o "'")>>
                  ELSE <<>>)
                 \o (IF _is_deprecated(new_symbol[1])
                     THEN <<Change(symbol_path, "deprecated", None, Some(new_sig),
                                   "'" \o symbol_path \o "' is now deprecated")>>
                     ELSE <<>>)
        ELSE <<>>

\* the changes list after the first k paths have been visited
RECURSIVE DetectLoop(_, _, _, _)
DetectLoop(old_api, new_api, visited, k) ==
    IF k = 0 THEN <<>>
    ELSE DetectLoop(old_api, new_api, visited, k - 1)
         \o ChangesOfSymbol(old_api, new_api, visited[k])

\* APIDiffer._detect_changes, sets of strings being iterated in the given
\* order
_detect_changes(old_api, new_api, used_symbols, order) ==
    LET symbol_paths == SymbolPaths(used_symbols)
        visited == Iterate(symbol_paths, order, Len(order))
    IN  DetectLoop(old_api, new_api, visited, Len(visited))

(***************************************************************************)
(* APIDiffer: the form in which a list of changes is kept in the cache.    *)
(* A dict is a function from its keys to its values.                       *)
(***************************************************************************)
\* the value of a member of the enum ChangeType
ChangeTypeValue(member) ==
    CASE member = "removed" -> "removed"
      [] member = "added" -> "added"
      [] member = "modified" -> "modified"
      [] member = "deprecated" -> "deprecated"

\* ChangeType(value): Some(member), or None where the code raises ValueError
ChangeTypeOf(value) ==
    IF \E member \in ChangeType : ChangeTypeValue(member) = value
    THEN Some(CHOOSE member \in ChangeType : ChangeTypeValue(member) = value)
    ELSE None

\* mutant: the description is not written
_serialize_changes_NoDescription(changes) ==
    [i \in DOMAIN changes |->
        [symbol_name |-> changes[i].symbol_name,
         change_type |-> ChangeTypeValue(changes[i].change_type),
         old_signature |-> changes[i].old_signature,
         new_signature |-> changes[i].new_signature]]

\* APIDiffer._serialize_changes: a list of dicts
_serialize_changes(changes) ==
    [i \in DOMAIN changes |->
        [symbol_name |-> changes[i].symbol_name,
         change_type |-> ChangeTypeValue(changes[i].change_type),
         old_signature |-> changes[i].old_signature,
         new_signature |-> changes[i].new_signature,
         description |-> changes[i].description]]

\* the loop of _deserialize_changes over the first k dicts: an element whose
\* change type is unknown is skipped
RECURSIVE DeserializeLoop(_, _)
DeserializeLoop(cached, k) ==
    IF k = 0 THEN <<>>
    ELSE LET change == cached[k]
             change_type == ChangeTypeOf(DictGet(change, "change_type", "modified"))
             before == DeserializeLoop(cached, k - 1)
         IN  IF change_type = None
             THEN before
             ELSE Append(before,
                         Change(DictGet(change, "symbol_name", ""),
                                change_type[1],
                                DictGet(change, "old_signature", None),
                                DictGet(change, "new_signature", None),
                                DictGet(change, "description", "")))

\* APIDiffer._deserialize_changes
_deserialize_changes(cached) == DeserializeLoop(cached, Len(cached))

(***************************************************************************)
(* APIDiffer.diff_versions.  What the call meets outside the program is    *)
(* given as env: the trees the two loads give (None for a load that        *)
(* fails), whether an exception is raised while diffing, and the order in  *)
(* which sets of strings are iterated.                                     *)
(***************************************************************************)
\* APIDiffer(offline), the module having imported griffe or not
NewAPIDiffer(offline, GRIFFE_AVAILABLE) ==
    [offline |-> offline, enabled |-> GRIFFE_AVAILABLE]

\* diff_versions: the list returned, the cache files left and the return
\* statement taken
diff_versions(self, cache, files, clock, package_name, old_version, new_version, used_symbols, env) ==
    IF ~self.enabled
    THEN [changes |-> <<>>, files |-> files, outcome |-> "disabled"]
    ELSE LET cache_key == CacheKey(package_name, old_version, new_version)
             got == cache_get(cache, files, cache_key, "api_diff", 0, clock)
         IN  IF got.value # None /\ got.value[1] # <<>>
             THEN [changes |-> _deserialize_changes(got.value[1]),
                   files |-> got.files,
                   outcome |-> "cached"]
             ELSE IF self.offline
             THEN [changes |-> <<>>, files |-> got.files, outcome |-> "offline"]
             ELSE IF env.raised
             THEN [changes |-> <<>>, files |-> got.files, outcome |-> "error"]
             ELSE IF env.old_api = None \/ env.new_api = None
             THEN [changes |-> <<>>, files |-> got.files, outcome |-> "unavailable"]
             ELSE LET changes == _detect_changes(env.old_api, env.new_api,
                                                 used_symbols, env.order)
                  IN  [changes |-> changes,
                       files |-> IF changes # <<>>
                                 THEN cache_set(cache, got.files, cache_key,
                                                _serialize_changes(changes),
                                                "api_diff", clock).files
                                 ELSE got.files,
                       outcome |-> "diffed"]

(***************************************************************************)
(* API trees of the model: a package module with the functions get and     *)
(* post, each of them present or not in a version                          *)
(***************************************************************************)
MaxUsedSymbols == 2

\* `import requests` gives the path of the package itself
SymbolPath == Symbols \cup {"requests"}

UsedSymbol == [package_name : {"requests"}, symbol_path : SymbolPath]

Function(parameters, docstring, decorators) ==
    [members |-> <<>>,
     has_parameters |-> TRUE,
     parameters |-> parameters,
     text |-> "Function",
     docstring |-> docstring,
     decorators |-> decorators]

Module(text, members) ==
    [members |-> members,
     has_parameters |-> FALSE,
     parameters |-> <<>>,
     text |-> text,
     docstring |-> None,
     decorators |-> <<>>]

OldFunctions ==
    {Function(<<"url">>, None, <<>>),
     Function(<<"url", "timeout=None">>, Some("Sends a request."), <<>>)}

NewFunctions ==
    {Function(<<"url">>, None, <<>>),
     Function(<<"url">>, Some("Deprecated since 2.0."), <<>>),
     Function(<<"url", "timeout=None">>, Some("Sends a request."),
              <<"typing.deprecated('use fetch')">>)}

MembersOver(objects) == UNION {[S -> objects] : S \in SUBSET {"get", "post"}}

OldAPIs == {Module("Module('a/requests')", m) : m \in MembersOver(OldFunctions)}

NewAPIs ==
    {Module(text, m) : text \in {"Module('a/requests')", "Module('b/requests')"},
                       m \in MembersOver(NewFunctions)}

(***************************************************************************)
(* ASTAnalyzer (scanner/ast_analyzer.py) and UsageMapper                   *)
(* (scanner/usage_mapper.py).  A file is its path, whether it can be read, *)
(* whether ast.parse accepts it, and the nodes ast.walk yields for it, in  *)
(* that order.  The nodes that matter are Import, ImportFrom and Call; a   *)
(* dict is a function from its keys to its values.                         *)
(***************************************************************************)
\* dict[key] = value
DictSet(dict, key, value) ==
    [k \in (DOMAIN dict) \cup {key} |-> IF k = key THEN value ELSE dict[k]]

\* s.split(".")[0]
FirstPart(str) == Split(str, ".")[1]

\* s.split(".")[-1]
LastPart(str) == LET parts == Split(str, ".") IN parts[Len(parts)]

\* s.endswith(suffix)
EndsWith(str, suffix) ==
    /\ Len(str) >= Len(suffix)
    /\ SubSeq(str, Len(str) - Len(suffix) + 1, Len(str)) = suffix

\* ASTAnalyzer(file_path)
NewASTAnalyzer(file_path) ==
    [file_path |-> file_path,
     _tree |-> None,
     _import_aliases |-> <<>>,
     _symbol_aliases |-> <<>>]

\* `for alias in node.names` of _build_alias_maps for an Import node
RECURSIVE ImportAliases(_, _, _)
ImportAliases(aliases, names, k) ==
    IF k = 0 THEN aliases
    ELSE LET before == ImportAliases(aliases, names, k - 1)
             alias == names[k]
         IN  IF alias.asname # None
             THEN DictSet(before, alias.asname[1], alias.name)
             ELSE DictSet(before, alias.name, alias.name)

\* `for alias in node.names` of _build_alias_maps for an ImportFrom node
RECURSIVE SymbolAliases(_, _, _, _)
SymbolAliases(aliases, module, names, k) ==
    IF k = 0 THEN aliases
    ELSE LET before == SymbolAliases(aliases, module, names, k - 1)
             symbol_name == names[k].name
             local_name == IF names[k].asname # None
                           THEN names[k].asname[1]
                           ELSE names[k].name
         IN  IF symbol_name # "*"
             THEN DictSet(before, local_name, module \o "." \o symbol_name)
             ELSE before

\* the loop of _build_alias_maps over the first k nodes
RECURSIVE BuildAliasLoop(_, _, _)
BuildAliasLoop(self, tree, k) ==
    IF k = 0 THEN self
    ELSE LET before == BuildAliasLoop(self, tree, k - 1)
             node == tree[k]
         IN  IF node.type = "Import"
             THEN [before EXCEPT !._import_aliases =
                      ImportAliases(@, node.names, Len(node.names))]
             ELSE IF node.type = "ImportFrom" /\ node.module # None
             THEN [before EXCEPT !._symbol_aliases =
                      SymbolAliases(@, node.module[1], node.names, Len(node.names))]
             ELSE before

\* ASTAnalyzer._build_alias_maps: the analyzer after the call
_build_alias_maps(self) ==
    IF self._tree = None
    THEN self
    ELSE BuildAliasLoop(self, self._tree[1], Len(self._tree[1]))

\* mutant: a file that cannot be parsed is taken as far as it can be read
_parse_file_Tolerant(self, file) ==
    IF self._tree # None
    THEN [self |-> self, tree |-> self._tree]
    ELSE IF file.readable
         THEN [self |-> _build_alias_maps([self EXCEPT !._tree = Some(file.tree)]),
               tree |-> Some(file.tree)]
         ELSE [self |-> self, tree |-> None]

\* ASTAnalyzer._parse_file: the analyzer after the call and the tree
\* returned (None when open, read or ast.parse raises)
_parse_file(self, file) ==
    IF self._tree # None
    THEN [self |-> self, tree |-> self._tree]
    ELSE IF file.readable /\ file.parses
         THEN [self |-> _build_alias_maps([self EXCEPT !._tree = Some(file.tree)]),
               tree |-> Some(file.tree)]
         ELSE [self |-> self, tree |-> None]

\* UsageNode(package_name, symbol_path, file_path, line_numbers=[lineno])
NewUsageNode(package_name, symbol_path, file_path, lineno) ==
    [package_name |-> package_name,
     symbol_path |-> symbol_path,
     file_path |-> file_path,
     line_numbers |-> <<lineno>>,
     call_count |-> 0]

\* mutant: a symbol already listed under the package is not listed again
AppendImport_Merging(imports, package_name, node) ==
    LET listed == DictGet(imports, package_name, <<>>)
    IN  IF \E i \in DOMAIN listed : listed[i].symbol_path = node.symbol_path
        THEN imports
        ELSE DictSet(imports, package_name, Append(listed, node))

\* imports[package_name].append(node), the list being created when missing
AppendImport(imports, package_name, node) ==
    DictSet(imports, package_name,
            Append(DictGet(imports, package_name, <<>>), node))

\* `for alias in node.names` of extract_imports for an Import node
RECURSIVE ImportedNames(_, _, _, _)
ImportedNames(imports, file_path, node, k) ==
    IF k = 0 THEN imports
    ELSE LET before == ImportedNames(imports, file_path, node, k - 1)
             package_name == FirstPart(node.names[k].name)
         IN  AppendImport(before, package_name,
                          NewUsageNode(package_name, node.names[k].name,
                                       file_path, node.lineno))

\* `for alias in node.names` of extract_imports for an ImportFrom node
RECURSIVE ImportedSymbols(_, _, _, _)
ImportedSymbols(imports, file_path, node, k) ==
    IF k = 0
    THEN DictSet(imports, FirstPart(node.module[1]),
                 DictGet(imports, FirstPart(node.module[1]), <<>>))
    ELSE LET before == ImportedSymbols(imports, file_path, node, k - 1)
             package_name == FirstPart(node.module[1])
             symbol_name == node.names[k].name
             symbol_path == IF symbol_name = "*"
                            THEN node.module[1] \o ".*"
                            ELSE node.module[1] \o "." \o symbol_name
         IN  AppendImport(before, package_name,
                          NewUsageNode(package_name, symbol_path,
                                       file_path, node.lineno))

\* the loop of extract_imports over the first k nodes
RECURSIVE ExtractLoop(_, _, _)
ExtractLoop(file_path, tree, k) ==
    IF k = 0 THEN <<>>
    ELSE LET before == ExtractLoop(file_path, tree, k - 1)
             node == tree[k]
         IN  IF node.type = "Import"
             THEN ImportedNames(before, file_path, node, Len(node.names))
             ELSE IF node.type = "ImportFrom" /\ node.module # None
             THEN ImportedSymbols(before, file_path, node, Len(node.names))
             ELSE before

\* ASTAnalyzer.extract_imports: the analyzer after the call and the dict
extract_imports(self, file) ==
    LET parsed == _parse_file(self, file)
    IN  [self |-> parsed.self,
         value |-> IF parsed.tree = None
                   THEN <<>>
                   ELSE ExtractLoop(self.file_path, parsed.tree[1],
                                    Len(parsed.tree[1]))]

\* ASTAnalyzer._is_matching_call
_is_matching_call(self, func_node, module_name, func_name, full_symbol_path) ==
    IF func_node.type = "Attribute"
    THEN /\ func_node.attr = func_name
         /\ func_node.value.type = "Name"
         /\ \/ func_node.value.id = FirstPart(module_name)
            \/ /\ func_node.value.id \in DOMAIN self._import_aliases
               /\ self._import_aliases[func_node.value.id] # ""
               /\ FirstPart(self._import_aliases[func_node.value.id])
                     = FirstPart(module_name)
    ELSE IF func_node.type = "Name"
    THEN /\ func_node.id = func_name
         /\ \/ func_node.id \notin DOMAIN self._symbol_aliases
            \/ self._symbol_aliases[func_node.id] = full_symbol_path
            \/ self._symbol_aliases[func_node.id] = ""
    ELSE FALSE

\* ASTAnalyzer._extract_call_info
_extract_call_info(self, call_node, symbol) ==
    [symbol |-> symbol,
     file_path |-> self.file_path,
     line_number |-> call_node.lineno,
     positional_args |-> call_node.args,
     keyword_args |-> call_node.keywords]

\* "."join(parts[:-1])
RECURSIVE JoinDots(_, _)
JoinDots(parts, k) ==
    IF k = 0 THEN ""
    ELSE IF k = 1 THEN parts[1]
    ELSE JoinDots(parts, k - 1) \o "." \o parts[k]

\* the loop of find_symbol_usage over the first k nodes
RECURSIVE FindLoop(_, _, _, _)
FindLoop(self, tree, symbol_path, k) ==
    IF k = 0 THEN <<>>
    ELSE LET before == FindLoop(self, tree, symbol_path, k - 1)
             parts == Split(symbol_path, ".")
             module_name == JoinDots(parts, Len(parts) - 1)
             func_name == parts[Len(parts)]
         IN  IF /\ tree[k].type = "Call"
                /\ _is_matching_call(self, tree[k].func, module_name, func_name,
                                     symbol_path)
             THEN Append(before, _extract_call_info(self, tree[k], symbol_path))
             ELSE before

\* ASTAnalyzer.find_symbol_usage
find_symbol_usage(self, file, symbol_path) ==
    LET parsed == _parse_file(self, file)
    IN  [self |-> parsed.self,
         value |-> IF parsed.tree = None
                   THEN <<>>
                   ELSE IF Len(Split(symbol_path, ".")) < 2
                   THEN <<>>
                   ELSE FindLoop(parsed.self, parsed.tree[1], symbol_path,
                                 Len(parsed.tree[1]))]

\* what one node adds to the count of count_function_calls
CountOfNode(self, node, function_name) ==
    IF node.type # "Call" THEN 0
    ELSE IF node.func.type = "Name"
    THEN (IF node.func.id = function_name THEN 1 ELSE 0)
         + (IF EndsWith(DictGet(self._symbol_aliases, node.func.id, ""),
                        "." \o function_name)
            THEN 1 ELSE 0)
    ELSE IF node.func.type = "Attribute"
    THEN IF node.func.attr = function_name THEN 1 ELSE 0
    ELSE 0

\* the loop of count_function_calls over the first k nodes
RECURSIVE CountLoop(_, _, _, _)
CountLoop(self, tree, function_name, k) ==
    IF k = 0 THEN 0
    ELSE CountLoop(self, tree, function_name, k - 1)
         + CountOfNode(self, tree[k], function_name)

\* ASTAnalyzer.count_function_calls
count_function_calls(self, file, function_name) ==
    LET parsed == _parse_file(self, file)
    IN  [self |-> parsed.self,
         value |-> IF parsed.tree = None
                   THEN 0
                   ELSE CountLoop(parsed.self, parsed.tree[1], function_name,
                                  Len(parsed.tree[1]))]

\* ASTAnalyzer._resolve_call_symbol: Some(path) or None
_resolve_call_symbol(self, func_node) ==
    IF func_node.type = "Name"
    THEN Some(DictGet(self._symbol_aliases, func_node.id, func_node.id))
    ELSE IF func_node.type = "Attribute" /\ func_node.value.type = "Name"
    THEN Some(DictGet(self._import_aliases, func_node.value.id,
                      func_node.value.id)
              \o "." \o func_node.attr)
    ELSE None

\* the loop of get_all_function_calls over the first k nodes
RECURSIVE CallsLoop(_, _, _)
CallsLoop(self, tree, k) ==
    IF k = 0 THEN <<>>
    ELSE LET before == CallsLoop(self, tree, k - 1)
             symbol_path == IF tree[k].type = "Call"
                            THEN _resolve_call_symbol(self, tree[k].func)
                            ELSE None
         IN  IF symbol_path # None /\ symbol_path[1] # ""
             THEN DictSet(before, symbol_path[1],
                          Append(DictGet(before, symbol_path[1], <<>>),
                                 tree[k].lineno))
             ELSE before

\* ASTAnalyzer.get_all_function_calls
get_all_function_calls(self, file) ==
    LET parsed == _parse_file(self, file)
    IN  [self |-> parsed.self,
         value |-> IF parsed.tree = None
                   THEN <<>>
                   ELSE CallsLoop(parsed.self, parsed.tree[1], Len(parsed.tree[1]))]

\* the inner loop of map_package_usage over the first k imports of a file
RECURSIVE CountedNodes(_, _, _, _)
CountedNodes(self, file, nodes, k) ==
    IF k = 0 THEN <<>>
    ELSE LET symbol == LastPart(nodes[k].symbol_path)
             counted == count_function_calls(self, file, symbol)
         IN  Append(CountedNodes(self, file, nodes, k - 1),
                    [nodes[k] EXCEPT !.call_count = counted.value])

\* the body of the loop of map_package_usage for one file: the usage nodes
\* it appends
UsageOfFile(file, package_name) ==
    LET extracted == extract_imports(NewASTAnalyzer(file.path), file)
        imports == extracted.value
    IN  IF package_name \in DOMAIN imports
        THEN CountedNodes(extracted.self, file, imports[package_name],
                          Len(imports[package_name]))
        ELSE <<>>

\* mutant: a symbol already in the list is not appended again
RECURSIVE MapLoop_MergesSymbols(_, _, _)
MapLoop_MergesSymbols(files, package_name, k) ==
    IF k = 0 THEN <<>>
    ELSE LET before == MapLoop_MergesSymbols(files, package_name, k - 1)
             New(node) == \A i \in DOMAIN before :
                             before[i].symbol_path # node.symbol_path
         IN  before \o SelectSeq(UsageOfFile(files[k], package_name), New)

\* the loop of map_package_usage over the first k files
RECURSIVE MapLoop(_, _, _)
MapLoop(files, package_name, k) ==
    IF k = 0 THEN <<>>
    ELSE MapLoop(files, package_name, k - 1) \o UsageOfFile(files[k], package_name)

\* UsageMapper.map_package_usage
map_package_usage(files, package_name) == MapLoop(files, package_name, Len(files))

\* sum(node.call_count for node in usage_nodes) over the first k nodes
RECURSIVE TotalCalls(_, _)
TotalCalls(nodes, k) ==
    IF k = 0 THEN 0 ELSE TotalCalls(nodes, k - 1) + nodes[k].call_count

\* the statistics get_usage_summary builds from the usage nodes
SummaryOf(nodes) ==
    [total_files |-> Cardinality({nodes[i].file_path : i \in DOMAIN nodes}),
     unique_symbols |-> Cardinality({nodes[i].symbol_path : i \in DOMAIN nodes}),
     total_calls |-> TotalCalls(nodes, Len(nodes)),
     import_statements |-> Len(nodes)]

\* UsageMapper.get_usage_summary
get_usage_summary(files, package_name) ==
    SummaryOf(map_package_usage(files, package_name))

(***************************************************************************)
(* Idle values of the parts a specification does not exercise              *)
(***************************************************************************)
ScanIdle ==
    /\ python_files = <<>>
    /\ analyzer = None

RestIdle ==
    /\ workers = <<>>
    /\ merged = <<>>
    /\ stored = <<>>
    /\ platform = "fcntl"
    /\ fds = {}
    /\ flock = None
    /\ threads = <<>>
    /\ http = None

DifferIdle ==
    /\ packages = <<>>
    /\ _cache = None
    /\ cache_files = <<>>
    /\ now = 0
    /\ differ = None
    /\ outcome = "none"

IdleDependency ==
    [name |-> "requests", current_version |-> <<>>, target_version |-> None]

InitUsage ==
    /\ pc = "ready"
    /\ usage_nodes \in SeqsUpTo(UsageNode, MaxUsageNodes)
    /\ api_changes \in SeqsUpTo(APIChange, MaxChanges)
    /\ dependency = IdleDependency
    /\ changelog_entries = <<>>
    /\ _config = <<>>
    /\ scorer = <<>>
    /\ result = NoResult
    /\ history = <<>>
    /\ ScanIdle
    /\ RestIdle
    /\ DifferIdle

CalculateUsageImpact ==
    /\ pc = "ready"
    /\ pc' = "returned"
    /\ result' = [kind |-> "usage",
                  score |-> _calculate_usage_impact(usage_nodes, api_changes)]
    /\ UNCHANGED <<dependency, usage_nodes, api_changes, changelog_entries,
                   _config, scorer, history>>
    /\ UNCHANGED differ_vars
    /\ UNCHANGED scan_vars
    /\ UNCHANGED rest_vars

NextUsage == CalculateUsageImpact

SpecUsage == InitUsage /\ [][NextUsage]_vars

InitSemver ==
    /\ pc = "ready"
    /\ dependency \in Dependency
    /\ usage_nodes = <<>>
    /\ api_changes = <<>>
    /\ changelog_entries = <<>>
    /\ _config = <<>>
    /\ scorer = <<>>
    /\ result = NoResult
    /\ history = <<>>
    /\ ScanIdle
    /\ RestIdle
    /\ DifferIdle

CalculateSemverRisk ==
    /\ pc = "ready"
    /\ pc' = "returned"
    /\ result' = [kind |-> "semver", score |-> _calculate_semver_risk(dependency)]
    /\ UNCHANGED <<dependency, usage_nodes, api_changes, changelog_entries,
                   _config, scorer, history>>
    /\ UNCHANGED differ_vars
    /\ UNCHANGED scan_vars
    /\ UNCHANGED rest_vars

NextSemver == CalculateSemverRisk

SpecSemver == InitSemver /\ [][NextSemver]_vars

InitChangelog ==
    /\ pc = "ready"
    /\ changelog_entries \in SeqsUpTo(ChangelogEntry, MaxEntries)
    /\ dependency = IdleDependency
    /\ usage_nodes = <<>>
    /\ api_changes = <<>>
    /\ _config = <<>>
    /\ scorer = <<>>
    /\ result = NoResult
    /\ history = <<>>
    /\ ScanIdle
    /\ RestIdle
    /\ DifferIdle

\* _calculate_changelog_severity: the entries are analysed in place
CalculateChangelogSeverity ==
    /\ pc = "ready"
    /\ pc' = "returned"
    /\ changelog_entries' =
           IF changelog_entries = <<>>
           THEN changelog_entries
           ELSE analyze_multiple_entries(changelog_entries)
    /\ result' = [kind |-> "changelog",
                  score |-> _calculate_changelog_severity(changelog_entries)]
    /\ UNCHANGED <<dependency, usage_nodes, api_changes, _config, scorer,
                   history>>
    /\ UNCHANGED differ_vars
    /\ UNCHANGED scan_vars
    /\ UNCHANGED rest_vars

NextChangelog == CalculateChangelogSeverity

SpecChangelog == InitChangelog /\ [][NextChangelog]_vars

(***************************************************************************)
(* calculate_risk on a scorer built from the global configuration          *)
(***************************************************************************)
MaxRiskChanges == 2
MaxRiskEntries == 1

\* the version string of a release tuple: V(<<2, 28, 0>>) is "2.28.0"
V(release) == [i \in 1..Len(release) |-> [digits |-> release[i], rest |-> ""]]

Upgrade(current, target) ==
    [name |-> "requests", current_version |-> current, target_version |-> target]

RiskDependencies ==
    {Upgrade(V(<<1, 0, 0>>), Some(V(<<3, 0, 0>>))),
     Upgrade(V(<<2, 28, 0>>), Some(V(<<2, 28, 1>>))),
     Upgrade(V(<<2, 0, 0>>), Some(V(<<3, 0, 0>>))),
     Upgrade(V(<<2, 25, 0>>), Some(V(<<2, 30, 0>>))),
     Upgrade(<<[digits |-> 1, rest |-> ""], [digits |-> 0, rest |-> "x"]>>,
             Some(V(<<1, 0, 0>>))),
     Upgrade(V(<<2, 28, 0>>), None)}

\* no usage, a usage of the changed symbol, a usage of another symbol
RiskUsages ==
    {<<>>,
     <<[package_name |-> "requests", symbol_path |-> "requests.get"]>>,
     <<[package_name |-> "requests", symbol_path |-> "requests.post"]>>}

RiskContents == {"Changed behavior bugfix", "typo"}

\* the changes are on one symbol; the usage nodes decide whether it is used
RiskAPIChange == [symbol_name : {"requests.get"}, change_type : ChangeType]

RiskEntry == [version : {"1.0.0"}, content : RiskContents, severity_keywords : {<<>>}]

Init ==
    /\ pc = "ready"
    /\ dependency \in RiskDependencies
    /\ usage_nodes \in RiskUsages
    /\ api_changes \in SeqsUpTo(RiskAPIChange, MaxRiskChanges)
    /\ changelog_entries \in SeqsUpTo(RiskEntry, MaxRiskEntries)
    /\ _config = None
    /\ scorer = None
    /\ result = NoResult
    /\ history = <<>>
    /\ ScanIdle
    /\ RestIdle
    /\ DifferIdle

\* get_config(config_file), as any client of the configuration calls it
GetConfig(config_file) ==
    /\ _config' = get_config(_config, config_file)
    /\ UNCHANGED <<pc, dependency, usage_nodes, api_changes, changelog_entries,
                   scorer, result, history>>
    /\ UNCHANGED differ_vars
    /\ UNCHANGED scan_vars
    /\ UNCHANGED rest_vars

\* RiskScorer(): self.config = get_config()
NewRiskScorer ==
    /\ scorer = None
    /\ _config' = get_config(_config, NoConfigFile)
    /\ scorer' = Some([config |-> _config'[1]])
    /\ UNCHANGED <<pc, dependency, usage_nodes, api_changes, changelog_entries,
                   result, history>>
    /\ UNCHANGED differ_vars
    /\ UNCHANGED scan_vars
    /\ UNCHANGED rest_vars

\* what the caller of calculate_risk passed and the scores it got back
CallRecord(score) ==
    [dependency |-> dependency,
     usage_nodes |-> usage_nodes,
     api_changes |-> api_changes,
     changelog_entries |-> changelog_entries,
     total_score |-> score.total_score,
     severity |-> score.severity,
     factor_scores |-> [i \in 1..Len(score.factors) |-> score.factors[i].score]]

\* scorer.calculate_risk(dependency, usage_nodes, api_changes,
\* changelog_entries); the changelog entries are analysed in place
CalculateRisk ==
    /\ pc = "ready"
    /\ scorer # None
    /\ pc' = "returned"
    /\ result' = calculate_risk(scorer[1].config, dependency, usage_nodes,
                                api_changes, changelog_entries)
    /\ history' = Append(history, CallRecord(result'))
    /\ changelog_entries' =
           IF changelog_entries = <<>>
           THEN changelog_entries
           ELSE analyze_multiple_entries(changelog_entries)
    /\ UNCHANGED <<dependency, usage_nodes, api_changes, _config, scorer>>
    /\ UNCHANGED differ_vars
    /\ UNCHANGED scan_vars
    /\ UNCHANGED rest_vars

Next ==
    \/ \E config_file \in ConfigFiles : GetConfig(config_file)
    \/ NewRiskScorer
    \/ CalculateRisk

Spec == Init /\ [][Next]_vars

(***************************************************************************)
(* Several calculate_risk calls on one scorer, as UpgradeAnalyzer.analyze  *)
(* and the determinism test make them                                      *)
(***************************************************************************)
MaxCalls == 3

Entry(content, keywords) ==
    [version |-> "1.0.0", content |-> content, severity_keywords |-> keywords]

\* argument lists of a call: two usage nodes, two changes of different
\* types, two entries of different texts, one of them with keywords left by
\* an earlier analysis
RepeatArguments ==
    [dependency : {Upgrade(V(<<2, 0, 0>>), Some(V(<<3, 0, 0>>))),
                   Upgrade(V(<<2, 28, 0>>), Some(V(<<2, 28, 1>>)))},
     usage_nodes : {<<[package_name |-> "requests", symbol_path |-> "requests.get"],
                      [package_name |-> "requests", symbol_path |-> "requests.post"]>>},
     api_changes : {<<[symbol_name |-> "requests.get", change_type |-> "modified"],
                      [symbol_name |-> "requests.post", change_type |-> "deprecated"]>>},
     changelog_entries : {<<Entry("Changed behavior", <<>>), Entry("typo", <<>>)>>,
                          <<Entry("Changed behavior", <<<<"deleted", "critical">>>>),
                            Entry("typo", <<>>)>>}]

\* the lists of args with their elements in the order p
Reordered(args, p) ==
    [dependency |-> args.dependency,
     usage_nodes |-> [i \in DOMAIN args.usage_nodes |-> args.usage_nodes[p[i]]],
     api_changes |-> [i \in DOMAIN args.api_changes |-> args.api_changes[p[i]]],
     changelog_entries |->
         [i \in DOMAIN args.changelog_entries |-> args.changelog_entries[p[i]]]]

\* the objects the caller holds after the last call, for the dependency dep
SameObjects(dep) ==
    [dependency |-> dep,
     usage_nodes |-> usage_nodes,
     api_changes |-> api_changes,
     changelog_entries |-> changelog_entries]

RepeatConfigFiles ==
    {NoConfigFile,
     ConfigFile([risk_scoring |->
                    Dict([semver_weight |-> Scalar(20),
                          usage_weight |-> Scalar(60),
                          changelog_weight |-> Scalar(20)])])}

InitRepeat ==
    /\ pc = "ready"
    /\ \E args \in RepeatArguments :
          /\ dependency = args.dependency
          /\ usage_nodes = args.usage_nodes
          /\ api_changes = args.api_changes
          /\ changelog_entries = args.changelog_entries
    /\ _config = None
    /\ scorer = None
    /\ result = NoResult
    /\ history = <<>>
    /\ ScanIdle
    /\ RestIdle
    /\ DifferIdle

\* the caller goes on to its next calculate_risk call on the same scorer:
\* with the objects of the last call or with new ones, in any order
PrepareCall ==
    /\ pc = "returned"
    /\ Len(history) < MaxCalls
    /\ pc' = "ready"
    /\ \E fresh \in RepeatArguments : \E p \in Permutations(1..2) :
         \E args \in {Reordered(fresh, p),
                       Reordered(SameObjects(fresh.dependency), p)} :
          /\ dependency' = args.dependency
          /\ usage_nodes' = args.usage_nodes
          /\ api_changes' = args.api_changes
          /\ changelog_entries' = args.changelog_entries
    /\ UNCHANGED <<_config, scorer, result, history>>
    /\ UNCHANGED differ_vars
    /\ UNCHANGED scan_vars
    /\ UNCHANGED rest_vars

NextRepeat ==
    \/ \E config_file \in RepeatConfigFiles : GetConfig(config_file)
    \/ NewRiskScorer
    \/ CalculateRisk
    \/ PrepareCall

SpecRepeat == InitRepeat /\ [][NextRepeat]_vars

(***************************************************************************)
(* _detect_changes on two loaded API trees                                 *)
(***************************************************************************)
OldVersion == V(<<1, 0, 0>>)
NewVersion == V(<<2, 0, 0>>)

\* what loading the two versions gave
Loaded(old_api, new_api) ==
    [v \in {OldVersion, NewVersion} |->
        IF v = OldVersion THEN Some(old_api) ELSE Some(new_api)]

InitDetect ==
    /\ pc = "ready"
    /\ dependency = Upgrade(OldVersion, Some(NewVersion))
    /\ usage_nodes \in SeqsUpTo(UsedSymbol, MaxUsedSymbols)
    /\ \E old_api \in OldAPIs : \E new_api \in NewAPIs :
          packages = Loaded(old_api, new_api)
    /\ _cache = None
    /\ cache_files = <<>>
    /\ now = 0
    /\ differ = None
    /\ outcome = "none"
    /\ api_changes = <<>>
    /\ changelog_entries = <<>>
    /\ _config = None
    /\ scorer = None
    /\ result = NoResult
    /\ history = <<>>
    /\ ScanIdle
    /\ RestIdle

\* self._detect_changes(old_api, new_api, used_symbols)
DetectChanges ==
    /\ pc = "ready"
    /\ pc' = "returned"
    /\ \E order \in Orders(SymbolPath) :
          result' = [kind |-> "changes",
                     changes |-> _detect_changes(packages[OldVersion],
                                                 packages[NewVersion],
                                                 usage_nodes, order)]
    /\ UNCHANGED <<dependency, usage_nodes>>
    /\ UNCHANGED scorer_vars
    /\ UNCHANGED differ_vars
    /\ UNCHANGED scan_vars
    /\ UNCHANGED rest_vars

NextDetect == DetectChanges

SpecDetect == InitDetect /\ [][NextDetect]_vars

(***************************************************************************)
(* _serialize_changes followed by _deserialize_changes                     *)
(***************************************************************************)
MaxSerialized == 2

\* APIChange values: any change type, the signatures None or a text, the
\* description empty or not
SerializedChange ==
    [symbol_name : {"requests.get"},
     change_type : ChangeType,
     old_signature : {None, Some("(url)")},
     new_signature : {None, Some("(url, timeout=None)")},
     description : {"", "Signature changed for 'requests.get'"}]

InitSerialize ==
    /\ pc = "ready"
    /\ api_changes \in SeqsUpTo(SerializedChange, MaxSerialized)
    /\ dependency = IdleDependency
    /\ usage_nodes = <<>>
    /\ changelog_entries = <<>>
    /\ _config = None
    /\ scorer = None
    /\ result = NoResult
    /\ history = <<>>
    /\ ScanIdle
    /\ RestIdle
    /\ DifferIdle

\* cache_data = self._serialize_changes(changes)
SerializeChanges ==
    /\ pc = "ready"
    /\ pc' = "serialized"
    /\ result' = [kind |-> "cache_data", value |-> _serialize_changes(api_changes)]
    /\ UNCHANGED <<dependency, usage_nodes>>
    /\ UNCHANGED scorer_vars
    /\ UNCHANGED differ_vars
    /\ UNCHANGED scan_vars
    /\ UNCHANGED rest_vars

\* self._deserialize_changes(cache_data)
DeserializeChanges ==
    /\ pc = "serialized"
    /\ pc' = "returned"
    /\ result' = [kind |-> "deserialized",
                  changes |-> _deserialize_changes(result.value)]
    /\ UNCHANGED <<dependency, usage_nodes>>
    /\ UNCHANGED scorer_vars
    /\ UNCHANGED differ_vars
    /\ UNCHANGED scan_vars
    /\ UNCHANGED rest_vars

NextSerialize ==
    \/ SerializeChanges
    \/ DeserializeChanges

SpecSerialize == InitSerialize /\ [][NextSerialize]_vars

(***************************************************************************)
(* The cache under set, get, delete and clear, the clock advancing         *)
(***************************************************************************)
MaxTicks == 2

\* one step of the clock: more than the 24 hours of the default ttl
TickHours == 25

TestKey == CacheKey("requests", OldVersion, NewVersion)

\* the values stored: serialized diffs that are not empty
CacheValues ==
    {_serialize_changes(<<Change("requests.get", "removed", Some("(url)"), None,
                                 "Symbol 'requests.get' was removed")>>),
     _serialize_changes(<<Change("requests.get", "deprecated", None, Some("(url)"),
                                 "'requests.get' is now deprecated")>>)}

\* a list of APIChange objects that were not serialized first
UnserializableValue == <<[object |-> "APIChange"]>>

\* a second key
OtherKey == CacheKey("requests", NewVersion, OldVersion)

\* the keys and cache types of the calls: the first key under every type,
\* the second under api_diff
CacheCalls ==
    {<<TestKey, "pypi">>, <<TestKey, "api_diff">>, <<TestKey, "other">>,
     <<OtherKey, "api_diff">>}

\* the cache types the callers pass, and one that no directory stands for
PassedTypes == {"pypi", "api_diff", "other"}

\* a file whose content is not JSON
CorruptFile == [json |-> FALSE, data |-> <<>>, mtime |-> 0]

CacheConfigFiles ==
    {NoConfigFile, ConfigFile([cache |-> Dict([enabled |-> Scalar(FALSE)])])}

InitCache ==
    /\ pc = "ready"
    /\ cache_files \in {<<>>, Replace(<<>>, <<"api_diff", TestKey>>, CorruptFile)}
    /\ now = 0
    /\ _cache = None
    /\ _config = None
    /\ packages = <<>>
    /\ differ = None
    /\ outcome = "none"
    /\ dependency = IdleDependency
    /\ usage_nodes = <<>>
    /\ api_changes = <<>>
    /\ changelog_entries = <<>>
    /\ scorer = None
    /\ result = NoResult
    /\ history = <<>>
    /\ ScanIdle
    /\ RestIdle

\* the value last set under a cache type and key and not deleted or cleared
\* since, with the time of the set: None, or Some of the two
StoredAt(cache_type, key) ==
    IF <<cache_type, key>> \in DOMAIN stored
    THEN Some(stored[<<cache_type, key>>])
    ELSE None

\* what a cache operation leaves alone
CacheFrame ==
    UNCHANGED <<pc, dependency, usage_nodes, api_changes, changelog_entries,
                _config, scorer, history, packages, _cache, now, differ, outcome>>

\* get_cache(): the first call builds the Cache from get_config()
GetCache ==
    /\ _cache = None
    /\ _config' = get_config(_config, NoConfigFile)
    /\ _cache' = get_cache(_cache, _config'[1])
    /\ UNCHANGED <<pc, dependency, usage_nodes, api_changes, changelog_entries,
                   scorer, result, history, packages, cache_files, now, differ,
                   outcome>>
    /\ UNCHANGED scan_vars
    /\ UNCHANGED rest_vars

\* cache.get(key, cache_type, ttl_hours)
CacheGet(key, cache_type, ttl_hours) ==
    /\ _cache # None
    /\ LET got == cache_get(_cache[1], cache_files, key, cache_type, ttl_hours, now)
       IN  /\ result' = [kind |-> "get", key |-> key, cache_type |-> cache_type,
                         ttl_hours |-> ttl_hours, at |-> now,
                         value |-> got.value]
           /\ cache_files' = got.files
    /\ CacheFrame
    /\ UNCHANGED scan_vars
    /\ UNCHANGED rest_vars

\* cache.set(key, value, cache_type)
CacheSet(key, value, cache_type) ==
    /\ _cache # None
    /\ LET done == cache_set(_cache[1], cache_files, key, value, cache_type, now)
       IN  /\ result' = [kind |-> "set", key |-> key, cache_type |-> cache_type,
                         ok |-> done.ok]
           /\ cache_files' = done.files
           /\ stored' = IF done.ok
                        THEN Replace(stored, <<cache_type, key>>,
                                     [value |-> value, at |-> now])
                        ELSE stored
    /\ CacheFrame
    /\ UNCHANGED scan_vars
    /\ UNCHANGED <<worker_vars, lock_vars, http>>

\* cache.delete(key, cache_type)
CacheDelete(key, cache_type) ==
    /\ _cache # None
    /\ LET done == cache_delete(_cache[1], cache_files, key, cache_type)
       IN  /\ result' = [kind |-> "delete", ok |-> done.ok]
           /\ cache_files' = done.files
           /\ stored' = Unlink(stored, <<cache_type, key>>)
    /\ CacheFrame
    /\ UNCHANGED scan_vars
    /\ UNCHANGED <<worker_vars, lock_vars, http>>

\* cache.clear(cache_type)
CacheClear(cache_type) ==
    /\ _cache # None
    /\ LET done == cache_clear(_cache[1], cache_files, cache_type)
       IN  /\ result' = [kind |-> "clear", deleted_count |-> done.deleted_count]
           /\ cache_files' = done.files
           /\ stored' = [e \in {d \in DOMAIN stored :
                                  cache_type # None /\ d[1] # cache_type[1]}
                           |-> stored[e]]
    /\ CacheFrame
    /\ UNCHANGED scan_vars
    /\ UNCHANGED <<worker_vars, lock_vars, http>>

\* time passes
Tick ==
    /\ now < MaxTicks * TickHours
    /\ now' = now + TickHours
    /\ UNCHANGED <<pc, dependency, usage_nodes, api_changes, changelog_entries,
                   _config, scorer, result, history, packages, _cache,
                   cache_files, differ, outcome>>
    /\ UNCHANGED scan_vars
    /\ UNCHANGED rest_vars

NextCache ==
    \/ \E config_file \in CacheConfigFiles : GetConfig(config_file)
    \/ GetCache
    \/ \E call \in CacheCalls : \E ttl_hours \in {0, 24} :
          CacheGet(call[1], call[2], ttl_hours)
    \/ \E call \in CacheCalls :
          \E value \in CacheValues \cup {UnserializableValue} :
              CacheSet(call[1], value, call[2])
    \/ \E call \in CacheCalls : CacheDelete(call[1], call[2])
    \/ \E cache_type \in {None} \cup {Some(t) : t \in PassedTypes} :
          CacheClear(cache_type)
    \/ Tick

SpecCache == InitCache /\ [][NextCache]_vars

(***************************************************************************)
(* diff_versions calls of an analyzer, the cache files being kept from     *)
(* one run of the program to the next                                      *)
(***************************************************************************)
\* version 1 has get(url) and post(url); version 2 has no get, and its post
\* has one more parameter and is deprecated
Version1 ==
    Module("Module('a/requests')",
           [n \in {"get", "post"} |-> Function(<<"url">>, None, <<>>)])

Version2 ==
    Module("Module('a/requests')",
           [n \in {"post"} |->
               Function(<<"url", "timeout=None">>, Some("Deprecated since 2.0."), <<>>)])

\* the index holds the two versions as they are, or two equal versions
DiffPackages == {Loaded(Version1, Version2), Loaded(Version1, Version1)}

DiffDependencies ==
    {Upgrade(OldVersion, Some(NewVersion)), Upgrade(NewVersion, Some(OldVersion))}

Used(path) == [package_name |-> "requests", symbol_path |-> path]

\* the usage nodes UsageMapper found for the package
DiffUsages ==
    {<<>>, <<Used("requests.get")>>, <<Used("requests.post")>>,
     <<Used("requests.get"), Used("requests.post")>>}

InitDiffer ==
    /\ pc = "ready"
    /\ dependency \in DiffDependencies
    /\ usage_nodes \in DiffUsages
    /\ packages \in DiffPackages
    /\ cache_files = <<>>
    /\ now = 0
    /\ _cache = None
    /\ _config = None
    /\ differ = None
    /\ outcome = "none"
    /\ api_changes = <<>>
    /\ changelog_entries = <<>>
    /\ scorer = None
    /\ result = NoResult
    /\ history = <<>>
    /\ ScanIdle
    /\ RestIdle

\* UpgradeAnalyzer.__init__: self.api_differ = APIDiffer(offline=offline);
\* the differ takes the global cache, built from the global configuration
CreateAPIDiffer(offline, GRIFFE_AVAILABLE) ==
    /\ differ = None
    /\ _config' = IF _cache = None THEN get_config(_config, NoConfigFile) ELSE _config
    /\ _cache' = get_cache(_cache, _config'[1])
    /\ differ' = Some(NewAPIDiffer(offline, GRIFFE_AVAILABLE))
    /\ UNCHANGED <<pc, dependency, usage_nodes, api_changes, changelog_entries,
                   scorer, result, history, packages, cache_files, now, outcome>>
    /\ UNCHANGED scan_vars
    /\ UNCHANGED rest_vars

\* self.api_differ.diff_versions(dependency.name, dependency.current_version,
\* dependency.target_version or "", usage_nodes)
DiffVersions ==
    /\ pc = "ready"
    /\ differ # None
    /\ pc' = "returned"
    /\ \E old_loaded, new_loaded, raised \in BOOLEAN :
       \E order \in Orders(SymbolPath) :
          LET env == [old_api |-> IF old_loaded
                                  THEN packages[dependency.current_version]
                                  ELSE None,
                      new_api |-> IF new_loaded
                                  THEN packages[dependency.target_version[1]]
                                  ELSE None,
                      raised |-> raised,
                      order |-> order]
              done == diff_versions(differ[1], _cache[1], cache_files, now,
                                    dependency.name, dependency.current_version,
                                    dependency.target_version[1], usage_nodes, env)
          IN  /\ result' = [kind |-> "diff", changes |-> done.changes]
              /\ cache_files' = done.files
              /\ outcome' = done.outcome
    /\ UNCHANGED <<dependency, usage_nodes, packages, _cache, now, differ>>
    /\ UNCHANGED scorer_vars
    /\ UNCHANGED scan_vars
    /\ UNCHANGED rest_vars

\* the analyzer goes on to its next dependency, or the project has changed
\* and is analysed again
NextDependency ==
    /\ pc = "returned"
    /\ pc' = "ready"
    /\ dependency' \in DiffDependencies
    /\ usage_nodes' \in DiffUsages
    /\ UNCHANGED <<result, packages, _cache, cache_files, now, differ, outcome>>
    /\ UNCHANGED scorer_vars
    /\ UNCHANGED scan_vars
    /\ UNCHANGED rest_vars

\* the program ends; a new run starts with the cache files of the last one
Restart ==
    /\ pc = "returned"
    /\ pc' = "ready"
    /\ _config' = None
    /\ _cache' = None
    /\ differ' = None
    /\ UNCHANGED <<dependency, usage_nodes, api_changes, changelog_entries,
                   scorer, result, history, packages, cache_files, now, outcome>>
    /\ UNCHANGED scan_vars
    /\ UNCHANGED rest_vars

NextDiffer ==
    \/ \E config_file \in CacheConfigFiles : GetConfig(config_file)
    \/ \E offline, GRIFFE_AVAILABLE \in BOOLEAN :
          CreateAPIDiffer(offline, GRIFFE_AVAILABLE)
    \/ DiffVersions
    \/ NextDependency
    \/ Restart

SpecDiffer == InitDiffer /\ [][NextDiffer]_vars

(***************************************************************************)
(* The scanner on the files of a project                                   *)
(***************************************************************************)
MaxFiles == 2

Alias(name, asname) == [name |-> name, asname |-> asname]

Import(names, lineno) == [type |-> "Import", names |-> names, lineno |-> lineno]

ImportFrom(module, names, lineno) ==
    [type |-> "ImportFrom", module |-> module, names |-> names, lineno |-> lineno]

Name(id) == [type |-> "Name", id |-> id]

Attribute(value, attr) == [type |-> "Attribute", value |-> value, attr |-> attr]

Call(func, lineno, args) ==
    [type |-> "Call", func |-> func, lineno |-> lineno, args |-> args,
     keywords |-> <<>>]

SourceFile(path, readable, parses, tree) ==
    [path |-> path, readable |-> readable, parses |-> parses, tree |-> tree]

\* import requests / requests.get(url)
AppFile ==
    SourceFile("app.py", TRUE, TRUE,
               <<Import(<<Alias("requests", None)>>, 1),
                 Call(Attribute(Name("requests"), "get"), 3, <<"url">>)>>)

\* from requests import get as fetch / fetch(url)
ClientFile ==
    SourceFile("client.py", TRUE, TRUE,
               <<ImportFrom(Some("requests"), <<Alias("get", Some("fetch"))>>, 1),
                 Call(Name("fetch"), 4, <<"url">>)>>)

\* import requests / requests.get(url) / def broken(  -- a syntax error; the
\* tree is the one the text would have without the last line
BrokenFile ==
    SourceFile("broken.py", TRUE, FALSE,
               <<Import(<<Alias("requests", None)>>, 1),
                 Call(Attribute(Name("requests"), "get"), 2, <<"url">>)>>)

\* a file that cannot be read as UTF-8
BinaryFile == SourceFile("data.py", FALSE, FALSE, <<>>)

\* import requests / from requests import get / get(url) / requests.get(url)
LibFile ==
    SourceFile("lib.py", TRUE, TRUE,
               <<Import(<<Alias("requests", None)>>, 1),
                 ImportFrom(Some("requests"), <<Alias("get", None)>>, 2),
                 Call(Name("get"), 4, <<"url">>),
                 Call(Attribute(Name("requests"), "get"), 5, <<"url">>)>>)

ProjectFiles == {AppFile, ClientFile, LibFile, BrokenFile, BinaryFile}

\* FileDiscovery.find_python_files: every file once, in the order of rglob
Discovered ==
    {files \in SeqsUpTo(ProjectFiles, MaxFiles) :
        \A i, j \in DOMAIN files : files[i] = files[j] => i = j}

\* the file at a path
FileAt(path) ==
    python_files[CHOOSE i \in DOMAIN python_files : python_files[i].path = path]

InitScan ==
    /\ pc = "ready"
    /\ python_files \in Discovered
    /\ analyzer = None
    /\ dependency = IdleDependency
    /\ usage_nodes = <<>>
    /\ api_changes = <<>>
    /\ changelog_entries = <<>>
    /\ _config = None
    /\ scorer = None
    /\ result = NoResult
    /\ history = <<>>
    /\ DifferIdle
    /\ RestIdle

\* what the scanner leaves alone
ScanFrame ==
    /\ UNCHANGED <<dependency, usage_nodes, python_files>>
    /\ UNCHANGED rest_vars
    /\ UNCHANGED scorer_vars
    /\ UNCHANGED differ_vars

\* self.usage_mapper.map_package_usage(dependency.name)
MapPackageUsage(package_name) ==
    /\ pc = "ready"
    /\ pc' = "returned"
    /\ result' = [kind |-> "usage_nodes",
                  value |-> map_package_usage(python_files, package_name)]
    /\ UNCHANGED analyzer
    /\ ScanFrame

\* analyzer = ASTAnalyzer(file_path)
CreateASTAnalyzer(file_path) ==
    /\ analyzer = None
    /\ analyzer' = Some(NewASTAnalyzer(file_path))
    /\ UNCHANGED <<pc, result>>
    /\ ScanFrame

\* an operation of the analyzer returns: its value and the analyzer left
Returns(kind, args, done) ==
    /\ result' = [kind |-> kind, args |-> args, value |-> done.value]
    /\ analyzer' = Some(done.self)
    /\ UNCHANGED pc
    /\ ScanFrame

\* analyzer.extract_imports()
ExtractImports ==
    /\ analyzer # None
    /\ Returns("imports", <<>>,
               extract_imports(analyzer[1], FileAt(analyzer[1].file_path)))

\* analyzer.find_symbol_usage(symbol_path)
FindSymbolUsage(symbol_path) ==
    /\ analyzer # None
    /\ Returns("call_sites", <<symbol_path>>,
               find_symbol_usage(analyzer[1], FileAt(analyzer[1].file_path),
                                 symbol_path))

\* analyzer.count_function_calls(function_name)
CountFunctionCalls(function_name) ==
    /\ analyzer # None
    /\ Returns("count", <<function_name>>,
               count_function_calls(analyzer[1], FileAt(analyzer[1].file_path),
                                    function_name))

\* analyzer.get_all_function_calls()
GetAllFunctionCalls ==
    /\ analyzer # None
    /\ Returns("calls", <<>>,
               get_all_function_calls(analyzer[1], FileAt(analyzer[1].file_path)))

NextScan ==
    \/ MapPackageUsage("requests")
    \/ \E i \in DOMAIN python_files : CreateASTAnalyzer(python_files[i].path)
    \/ ExtractImports
    \/ FindSymbolUsage("requests.get")
    \/ CountFunctionCalls("get")
    \/ GetAllFunctionCalls

SpecScan == InitScan /\ [][NextScan]_vars

(***************************************************************************)
(* The analyzer on one file, over the import and call statements a file    *)
(* may hold                                                                *)
(***************************************************************************)
MaxStatements == 3

\* the import statements of a file
ImportStatements ==
    {Import(<<Alias("numpy", None)>>, 0),                       \* import numpy
     Import(<<Alias("numpy", Some("np"))>>, 0),                 \* import numpy as np
     Import(<<Alias("numpy.linalg", Some("la"))>>, 0),          \* import numpy.linalg as la
     ImportFrom(Some("numpy"), <<Alias("array", None)>>, 0),    \* from numpy import array
     ImportFrom(Some("numpy"), <<Alias("array", Some("arr")),
                                 Alias("linalg", Some("la"))>>, 0),
                                      \* from numpy import array as arr, linalg as la
     ImportFrom(Some("numpy.linalg"), <<Alias("*", None)>>, 0), \* from numpy.linalg import *
     ImportFrom(None, <<Alias("array", None)>>, 0)}             \* from . import array

\* the call expressions of a file
CallStatements ==
    {Call(Name("array"), 0, <<>>),                              \* array()
     Call(Name("arr"), 0, <<>>),                                \* arr()
     Call(Attribute(Name("numpy"), "array"), 0, <<>>),          \* numpy.array()
     Call(Attribute(Name("np"), "array"), 0, <<>>),             \* np.array()
     Call(Attribute(Name("np"), "norm"), 0, <<>>),              \* np.norm()
     Call(Attribute(Name("la"), "norm"), 0, <<>>),              \* la.norm()
     Call(Attribute(Attribute(Name("numpy"), "linalg"), "norm"), 0, <<>>)}
                                                                \* numpy.linalg.norm()

\* node.lineno: one statement a line
Numbered(tree) == [k \in DOMAIN tree |-> [tree[k] EXCEPT !.lineno = k]]

\* the files ast.parse accepts
ModuleFiles ==
    {SourceFile("module.py", TRUE, TRUE, Numbered(tree)) :
        tree \in SeqsUpTo(ImportStatements \cup CallStatements, MaxStatements)}

\* the symbols and the names asked for
AskedSymbols == {"numpy.array", "numpy.linalg.norm"}

AskedNames == {"array", "norm"}

InitResolve ==
    /\ pc = "ready"
    /\ \E file \in ModuleFiles : python_files = <<file>>
    /\ analyzer = None
    /\ dependency = IdleDependency
    /\ usage_nodes = <<>>
    /\ api_changes = <<>>
    /\ changelog_entries = <<>>
    /\ _config = None
    /\ scorer = None
    /\ result = NoResult
    /\ history = <<>>
    /\ DifferIdle
    /\ RestIdle

NextResolve ==
    \/ CreateASTAnalyzer(python_files[1].path)
    \/ ExtractImports
    \/ \E symbol_path \in AskedSymbols : FindSymbolUsage(symbol_path)
    \/ \E function_name \in AskedNames : CountFunctionCalls(function_name)
    \/ GetAllFunctionCalls

SpecResolve == InitResolve /\ [][NextResolve]_vars

(***************************************************************************)
(* The body of the loop of map_package_usage run for every file on its     *)
(* own, the invocations interleaved: each one creates its analyzer,        *)
(* extracts the imports, counts the calls of each usage node and hands the *)
(* node over to the one list of the result.                                *)
(***************************************************************************)
\* an invocation before its first step
NewWorker == [pc |-> "start", analyzer |-> None, nodes |-> <<>>, k |-> 0]

InitWorkers ==
    /\ pc = "ready"
    /\ python_files \in Discovered
    /\ analyzer = None
    /\ workers = [i \in DOMAIN python_files |-> NewWorker]
    /\ merged = <<>>
    /\ stored = <<>>
    /\ platform = "fcntl"
    /\ fds = {}
    /\ flock = None
    /\ threads = <<>>
    /\ http = None
    /\ dependency = IdleDependency
    /\ usage_nodes = <<>>
    /\ api_changes = <<>>
    /\ changelog_entries = <<>>
    /\ _config = None
    /\ scorer = None
    /\ result = NoResult
    /\ history = <<>>
    /\ DifferIdle

\* what an invocation leaves alone
WorkerFrame ==
    /\ UNCHANGED <<pc, dependency, usage_nodes, result, stored, http>>
    /\ UNCHANGED scan_vars
    /\ UNCHANGED scorer_vars
    /\ UNCHANGED differ_vars
    /\ UNCHANGED lock_vars

\* analyzer = ASTAnalyzer(file_path)
Analyze(i) ==
    /\ workers[i].pc = "start"
    /\ workers' = [workers EXCEPT
                      ![i].analyzer = Some(NewASTAnalyzer(python_files[i].path)),
                      ![i].pc = "created"]
    /\ UNCHANGED merged
    /\ WorkerFrame

\* imports = analyzer.extract_imports(); if package_name in imports: ...
Extract(i, package_name) ==
    /\ workers[i].pc = "created"
    /\ LET extracted == extract_imports(workers[i].analyzer[1], python_files[i])
           nodes == DictGet(extracted.value, package_name, <<>>)
       IN  workers' = [workers EXCEPT
                         ![i].analyzer = Some(extracted.self),
                         ![i].nodes = nodes,
                         ![i].pc = IF Len(nodes) = 0 THEN "done" ELSE "counting"]
    /\ UNCHANGED merged
    /\ WorkerFrame

\* usage_node.call_count = analyzer.count_function_calls(symbol)
Count(i) ==
    /\ workers[i].pc = "counting"
    /\ LET node == workers[i].nodes[workers[i].k + 1]
           counted == count_function_calls(workers[i].analyzer[1], python_files[i],
                                           LastPart(node.symbol_path))
       IN  workers' = [workers EXCEPT
                         ![i].analyzer = Some(counted.self),
                         ![i].nodes[workers[i].k + 1].call_count = counted.value,
                         ![i].pc = "counted"]
    /\ UNCHANGED merged
    /\ WorkerFrame

\* usage_nodes.append(usage_node)
HandOver(i) ==
    /\ workers[i].pc = "counted"
    /\ merged' = Append(merged, workers[i].nodes[workers[i].k + 1])
    /\ workers' = [workers EXCEPT
                      ![i].k = @ + 1,
                      ![i].pc = IF workers[i].k + 1 = Len(workers[i].nodes)
                                THEN "done" ELSE "counting"]
    /\ WorkerFrame

\* self.usage_mapper.get_usage_summary(dependency.name)
GetUsageSummary(package_name) ==
    /\ pc = "ready"
    /\ pc' = "returned"
    /\ result' = [kind |-> "summary",
                  value |-> get_usage_summary(python_files, package_name)]
    /\ UNCHANGED analyzer
    /\ ScanFrame

NextWorkers ==
    \/ \E i \in DOMAIN workers : Analyze(i)
    \/ \E i \in DOMAIN workers : Extract(i, "requests")
    \/ \E i \in DOMAIN workers : Count(i)
    \/ \E i \in DOMAIN workers : HandOver(i)
    \/ MapPackageUsage("requests")
    \/ GetUsageSummary("requests")

SpecWorkers == InitWorkers /\ [][NextWorkers]_vars

(***************************************************************************)
(* Threads in cache operations on one key.  get, set and delete run their  *)
(* file work under `with self._lock_key(key)`; a caller may also take the  *)
(* FileLock of the key through `with FileLock(...)`.  The wait of acquire  *)
(* is counted in passes of its loop: the timeout is over after             *)
(* MaxPasses passes that found the lock taken.                             *)
(***************************************************************************)
MaxThreads == 2

MaxPasses == 2

\* the operations that take the lock of the key
LockedOperations == {"get", "set", "delete", "with"}

\* a thread outside every operation
IdleThread ==
    [pc |-> "idle", op |-> "none", lock |-> NewFileLock, passes |-> 0,
     acquired |-> FALSE, raised |-> FALSE]

InitLocks ==
    /\ pc = "ready"
    /\ platform \in Platforms
    /\ fds = {}
    /\ flock = None
    /\ threads = [t \in 1..MaxThreads |-> IdleThread]
    /\ workers = <<>>
    /\ merged = <<>>
    /\ stored = <<>>
    /\ http = None
    /\ dependency = IdleDependency
    /\ usage_nodes = <<>>
    /\ api_changes = <<>>
    /\ changelog_entries = <<>>
    /\ _config = None
    /\ scorer = None
    /\ result = NoResult
    /\ history = <<>>
    /\ DifferIdle
    /\ ScanIdle

\* what a thread leaves alone
LockFrame ==
    /\ UNCHANGED <<pc, dependency, usage_nodes, result, stored, http, platform>>
    /\ UNCHANGED scan_vars
    /\ UNCHANGED scorer_vars
    /\ UNCHANGED differ_vars
    /\ UNCHANGED worker_vars

\* lock = FileLock(self._get_lock_file(key)); lock.acquire() is entered
EnterLock(t, op) ==
    /\ threads[t].pc = "idle"
    /\ threads' = [threads EXCEPT ![t] = [IdleThread EXCEPT !.pc = "acquire",
                                                            !.op = op]]
    /\ UNCHANGED <<fds, flock>>
    /\ LockFrame

\* one pass of the loop of acquire, the timeout not yet over
AcquirePass(t) ==
    /\ threads[t].pc = "acquire"
    /\ threads[t].passes < MaxPasses
    /\ LET tried == acquire_pass(threads[t].lock, platform, fds, flock)
       IN  /\ threads' = [threads EXCEPT
                            ![t].lock = tried.self,
                            ![t].acquired = tried.acquired,
                            ![t].passes = IF tried.acquired THEN @ ELSE @ + 1,
                            ![t].pc = IF tried.acquired THEN "locked" ELSE "acquire"]
           /\ fds' = tried.open
           /\ flock' = tried.holder
    /\ LockFrame

\* the timeout is over: acquire returns False, and the caller, which does
\* not look at what acquire returns, goes on into the guarded block
AcquireTimeout(t) ==
    /\ threads[t].pc = "acquire"
    /\ threads[t].passes >= MaxPasses
    /\ threads' = [threads EXCEPT ![t].pc = "locked"]
    /\ UNCHANGED <<fds, flock>>
    /\ LockFrame

\* the guarded block ends, normally or with an exception
LeaveBlock(t, failed) ==
    /\ threads[t].pc = "locked"
    /\ threads' = [threads EXCEPT ![t].pc = "exit", ![t].raised = failed]
    /\ UNCHANGED <<fds, flock>>
    /\ LockFrame

\* finally: lock.release()  /  __exit__: self.release()
ReleaseLock(t) ==
    /\ threads[t].pc = "exit"
    /\ LET released == FileLock_release(threads[t].lock, fds, flock)
       IN  /\ threads' = [threads EXCEPT ![t].lock = released.self,
                                         ![t].pc = "done"]
           /\ fds' = released.open
           /\ flock' = released.holder
    /\ LockFrame

\* the operation has returned; the thread is free for the next one
Return(t) ==
    /\ threads[t].pc = "done"
    /\ threads' = [threads EXCEPT ![t] = IdleThread]
    /\ UNCHANGED <<fds, flock>>
    /\ LockFrame

NextLocks ==
    \/ \E t \in DOMAIN threads : \E op \in LockedOperations : EnterLock(t, op)
    \/ \E t \in DOMAIN threads : AcquirePass(t)
    \/ \E t \in DOMAIN threads : AcquireTimeout(t)
    \/ \E t \in DOMAIN threads : \E failed \in BOOLEAN : LeaveBlock(t, failed)
    \/ \E t \in DOMAIN threads : ReleaseLock(t)
    \/ \E t \in DOMAIN threads : Return(t)

SpecLocks == InitLocks /\ [][NextLocks]_vars

(***************************************************************************)
(* SyncHTTPClient._request_with_retry (http_client.py): one call, the      *)
(* server answering each request with a response or the transport failing  *)
(***************************************************************************)
MaxRetries == 2

\* RetryConfig(max_retries=...)
RetryConfig(max_retries) == [max_retries |-> max_retries]

\* the Retry-After headers of the responses: absent, a number of seconds,
\* an HTTP date
RetryAfterHeaders == {None, Some("1"), Some("Wed, 21 Oct 2015 07:28:00 GMT")}

\* a response of the server
Response(status_code, retry_after) ==
    [kind |-> "response", status_code |-> status_code,
     retry_after |-> retry_after]

\* self._client.request raises instead of returning a response
Raises(exception) ==
    [kind |-> exception, status_code |-> 0, retry_after |-> None]

\* what the server and the transport can do with one request
ServerOutcomes ==
    {Response(200, None), Response(404, None), Response(500, None),
     Response(503, None)}
        \cup {Response(429, h) : h \in RetryAfterHeaders}
        \cup {Raises("TimeoutException"), Raises("ConnectError")}

DigitChars == <<"0", "1", "2", "3", "4", "5", "6", "7", "8", "9">>

IsDigit(c) == \E d \in DOMAIN DigitChars : DigitChars[d] = c

DigitOf(c) == (CHOOSE d \in DOMAIN DigitChars : DigitChars[d] = c) - 1

\* the number the first k characters of a text of digits stand for
RECURSIVE DigitsValue(_, _)
DigitsValue(text, k) ==
    IF k = 0 THEN 0
    ELSE 10 * DigitsValue(text, k - 1) + DigitOf(SubSeq(text, k, k))

\* int(text): Some(number) for an optional sign and decimal digits, None
\* where int raises ValueError
IntOfText(text) ==
    LET signed == Len(text) > 0 /\ SubSeq(text, 1, 1) \in {"+", "-"}
        digits == IF signed THEN SubSeq(text, 2, Len(text)) ELSE text
    IN  IF Len(digits) = 0
           \/ \E i \in 1..Len(digits) : ~IsDigit(SubSeq(digits, i, i))
        THEN None
        ELSE IF signed /\ SubSeq(text, 1, 1) = "-"
             THEN Some(0 - DigitsValue(digits, Len(digits)))
             ELSE Some(DigitsValue(digits, Len(digits)))

\* int(response.headers.get("Retry-After", 60))
RetryAfterOf(response) ==
    IF response.retry_after = None
    THEN Some(60)
    ELSE IntOfText(response.retry_after[1])

\* no call in progress
NoCall ==
    [pc |-> "idle", max_retries |-> 0, attempt |-> 0, outcomes |-> <<>>,
     last_exception |-> "none", returned |-> None, raised |-> "none"]

\* one pass of the loop `for attempt in range(max_retries + 1)`: the
\* request is sent and the answer handled.  The sleeps before the next
\* pass take time and change nothing.
RequestPass(call, answer) ==
    LET seen == [call EXCEPT !.outcomes = Append(@, answer)]
    IN  IF answer.kind # "response"
        THEN [seen EXCEPT !.last_exception = answer.kind, !.attempt = @ + 1]
        ELSE IF answer.status_code = 429
        THEN IF RetryAfterOf(answer) = None
             THEN [seen EXCEPT !.pc = "raised", !.raised = "ValueError"]
             ELSE IF RetryAfterOf(answer)[1] < 0    \* time.sleep(negative)
             THEN [seen EXCEPT !.pc = "raised", !.raised = "ValueError"]
             ELSE [seen EXCEPT !.attempt = @ + 1]    \* continue
        ELSE IF answer.status_code >= 500
        THEN [seen EXCEPT !.last_exception = "HTTPStatusError",
                          !.attempt = @ + 1]
        ELSE [seen EXCEPT !.pc = "returned", !.returned = Some(answer)]

\* after the loop: raise last_exception, or HTTPError when there is none
AfterLoop(call) ==
    [call EXCEPT !.pc = "raised",
                 !.raised = IF call.last_exception # "none"
                            THEN call.last_exception
                            ELSE "HTTPError"]

InitHTTP ==
    /\ pc = "ready"
    /\ http = NoCall
    /\ workers = <<>>
    /\ merged = <<>>
    /\ stored = <<>>
    /\ platform = "fcntl"
    /\ fds = {}
    /\ flock = None
    /\ threads = <<>>
    /\ dependency = IdleDependency
    /\ usage_nodes = <<>>
    /\ api_changes = <<>>
    /\ changelog_entries = <<>>
    /\ _config = None
    /\ scorer = None
    /\ result = NoResult
    /\ history = <<>>
    /\ DifferIdle
    /\ ScanIdle

\* what the client leaves alone
HTTPFrame ==
    /\ UNCHANGED <<pc, dependency, usage_nodes, result, stored>>
    /\ UNCHANGED scan_vars
    /\ UNCHANGED scorer_vars
    /\ UNCHANGED differ_vars
    /\ UNCHANGED worker_vars
    /\ UNCHANGED lock_vars

\* client.get(url) of a SyncHTTPClient(retry_config=retry_config): the call
\* of _request_with_retry begins
RequestWithRetry(retry_config) ==
    /\ http.pc \in {"idle", "returned", "raised"}
    /\ http' = [NoCall EXCEPT !.pc = "loop",
                              !.max_retries = retry_config.max_retries]
    /\ HTTPFrame

\* one pass of the loop
Attempt(answer) ==
    /\ http.pc = "loop"
    /\ http.attempt < http.max_retries + 1
    /\ http' = RequestPass(http, answer)
    /\ HTTPFrame

\* the loop is over without a return
LoopOver ==
    /\ http.pc = "loop"
    /\ http.attempt >= http.max_retries + 1
    /\ http' = AfterLoop(http)
    /\ HTTPFrame

NextHTTP ==
    \/ \E max_retries \in 0..MaxRetries :
          RequestWithRetry(RetryConfig(max_retries))
    \/ \E answer \in ServerOutcomes : Attempt(answer)
    \/ LoopOver

SpecHTTP == InitHTTP /\ [][NextHTTP]_vars

\* the scheduling of the call: a thread in the loop takes its next step
FairHTTP ==
    /\ SpecHTTP
    /\ WF_vars(\E answer \in ServerOutcomes : Attempt(answer))
    /\ WF_vars(LoopOver)

(***************************************************************************)
(* Claims about the usage factor, checked under SpecUsage                  *)
(***************************************************************************)
\* the positions of the changes of type t whose symbol_name is the
\* symbol_path of some usage node
MatchedChanges(t) ==
    {i \in 1..Len(api_changes) :
        /\ api_changes[i].change_type = t
        /\ \E j \in 1..Len(usage_nodes) :
              usage_nodes[j].symbol_path = api_changes[i].symbol_name}

UsageReturned == pc = "returned" /\ result.kind = "usage"

\* C1: if at least one Removed change names the symbol of a usage node, the
\* usage factor is exactly 100, whatever other changes are present and in
\* whatever order.
C1_RemovedOnUsedSymbolGives100 ==
    (UsageReturned /\ MatchedChanges("removed") # {}) => result.score = 100

\* a Removed change on a used symbol that comes after a Modified change on a
\* used symbol
C1_Witness ==
    /\ UsageReturned
    /\ \E i \in MatchedChanges("modified") :
          \E k \in MatchedChanges("removed") : i < k
    /\ result.score = 100

\* C2: with no Removed change on a used symbol, n >= 1 Modified changes on
\* used symbols give min(70 + 10n, 90) whatever Deprecated changes match;
\* otherwise m >= 1 Deprecated changes on used symbols give min(40 + 10m, 60).
C2_ModifiedThenDeprecated ==
    (UsageReturned /\ MatchedChanges("removed") = {}) =>
        LET n == Cardinality(MatchedChanges("modified"))
            m == Cardinality(MatchedChanges("deprecated"))
        IN  /\ n >= 1 => result.score = Min(70 + 10 * n, 90)
            /\ (n = 0 /\ m >= 1) => result.score = Min(40 + 10 * m, 60)
            /\ (n = 0 /\ m = 1) => result.score = 50

\* three Modified changes on used symbols: the cap of 90 applies
C2_Witness ==
    /\ UsageReturned
    /\ MatchedChanges("removed") = {}
    /\ Cardinality(MatchedChanges("modified")) = 3
    /\ result.score = 90

\* C3: the usage factor is 0 iff the list of API changes is empty, and it is
\* exactly 10 when the list is non-empty and no change names a used symbol.
C3_ZeroIffNoChanges ==
    UsageReturned =>
        /\ (result.score = 0) <=> (api_changes = <<>>)
        /\ (/\ api_changes # <<>>
            /\ \A t \in ChangeType : MatchedChanges(t) = {})
               => result.score = 10

\* changes exist, usage nodes exist, none of the changes is on a used symbol
C3_Witness ==
    /\ UsageReturned
    /\ api_changes # <<>>
    /\ usage_nodes # <<>>
    /\ \A t \in ChangeType : MatchedChanges(t) = {}
    /\ result.score = 10

(***************************************************************************)
(* Claims about the semver factor, checked under SpecSemver                *)
(***************************************************************************)
SemverReturned == pc = "returned" /\ result.kind = "semver"

\* a string that packaging parses: non-empty, numbers only, at most a
\* pre-release label at the end
Parseable(s) ==
    /\ s # <<>>
    /\ \A i \in 1..Len(s) : s[i].rest # "" => (i = Len(s) /\ s[i].rest = "rc1")

\* position i (from 1) of the release tuple of a parseable string, 0 if missing
ReleasePosition(s, i) == IF i <= Len(s) THEN s[i].digits ELSE 0

Delta(i) ==
    Abs(ReleasePosition(dependency.target_version[1], i)
          - ReleasePosition(dependency.current_version, i))

TargetMissing == dependency.target_version = None

BothParseable ==
    /\ ~TargetMissing
    /\ Parseable(dependency.current_version)
    /\ Parseable(dependency.target_version[1])

C5_UnparseableGivesZero ==
    (/\ SemverReturned
     /\ ~TargetMissing
     /\ \/ ~Parseable(dependency.current_version)
        \/ ~Parseable(dependency.target_version[1]))
        => result.score = 0

\* the largest increase of the major difference that C9 looks at
MaxMajorStep == 3

\* C9: the semver factor lies in [0, 100], and with the minor and patch
\* differences held fixed it never decreases as the major difference
\* increases (the step from 0 to 1 included).
C9_SemverRangeAndMonotone ==
    SemverReturned =>
        /\ result.score >= 0
        /\ result.score <= 100
        /\ (dependency.target_version # None
              /\ dependency.target_version # Some(<<>>)) =>
              LET d == calculate_version_distance(dependency.current_version,
                                                  dependency.target_version[1])
              IN  \A k \in 1..MaxMajorStep :
                      /\ SemverScoreOfDistance([d EXCEPT !.major = @ + k])
                            >= result.score
                      /\ SemverScoreOfDistance([d EXCEPT !.major = @ + k])
                            <= 100

\* a minor-only difference at its cap of 60: one more major gives 80
C9_Witness ==
    /\ SemverReturned
    /\ BothParseable
    /\ Delta(1) = 0
    /\ Delta(2) >= 4
    /\ result.score = 60
    /\ SemverScoreOfDistance([major |-> 1, minor |-> Delta(2),
                              patch |-> Delta(3)]) = 80

(***************************************************************************)
(* Claims about the changelog factor, checked under SpecChangelog          *)
(***************************************************************************)
ChangelogReturned == pc = "returned" /\ result.kind = "changelog"

AllKeywords ==
    {<<CRITICAL_KEYWORDS[i], 100>> : i \in DOMAIN CRITICAL_KEYWORDS}
        \cup {<<HIGH_KEYWORDS[i], 70>> : i \in DOMAIN HIGH_KEYWORDS}
        \cup {<<MEDIUM_KEYWORDS[i], 40>> : i \in DOMAIN MEDIUM_KEYWORDS}
        \cup {<<LOW_KEYWORDS[i], 10>> : i \in DOMAIN LOW_KEYWORDS}

\* the keywords (with their weights) that occur in the text of entry i
MatchedKeywords(i) ==
    LET text == Lower(changelog_entries[i].content)
    IN  {kw \in AllKeywords : Contains(text, kw[1])}

RECURSIVE SumOfWeights(_)
SumOfWeights(S) ==
    IF S = {} THEN 0
    ELSE LET kw == CHOOSE kw \in S : TRUE IN kw[2] + SumOfWeights(S \ {kw})

\* the average weight of the keywords matched in entry i, 0 if there is none
EntryScore(i) ==
    LET matched == MatchedKeywords(i)
    IN  IF matched = {}
        THEN Rat(0, 1)
        ELSE Rat(SumOfWeights(matched), Cardinality(matched))

RECURSIVE SumOfEntryScores(_)
SumOfEntryScores(k) ==
    IF k = 0 THEN Rat(0, 1) ELSE RatAdd(SumOfEntryScores(k - 1), EntryScore(k))

\* C10: the changelog factor is 0 without entries; otherwise it is the mean
\* over all entries of the entry score, the average weight (Critical 100,
\* High 70, Medium 40, Low 10) of the keywords matched in the entry and 0 for
\* an entry without a matched keyword; it lies in [0, 100].
C10_ChangelogFactorIsMeanOfEntryScores ==
    ChangelogReturned =>
        /\ changelog_entries = <<>> => result.score = <<0, 1>>
        /\ changelog_entries # <<>> =>
              result.score = RatDiv(SumOfEntryScores(Len(changelog_entries)),
                                    Len(changelog_entries))
        /\ RatLeq(<<0, 1>>, result.score)
        /\ RatLeq(result.score, <<100, 1>>)

\* two entries, one without any keyword, one in upper case with keywords of
\* different severities, and a factor that is not a whole number
C10_Witness ==
    /\ ChangelogReturned
    /\ Len(changelog_entries) = 2
    /\ \E i, j \in 1..2 :
          /\ MatchedKeywords(i) = {}
          /\ Cardinality({kw[2] : kw \in MatchedKeywords(j)}) >= 2
          /\ changelog_entries[j].content # Lower(changelog_entries[j].content)
    /\ result.score[2] > 1

(***************************************************************************)
(* Claims about calculate_risk, checked under Spec                         *)
(***************************************************************************)
RiskReturned == pc = "returned" /\ result.kind = "risk"

FactorWeights == [i \in 1..Len(result.factors) |-> result.factors[i].weight]

DefaultWeights == FactorWeights = <<30, 50, 20>>

\* C6 (as claimed): no calculate_risk call executes with weights whose sum
\* differs from 1.0, a configuration with such weights being rejected when
\* it is loaded.
C6_WeightsSumToOne ==
    RiskReturned => FactorWeights[1] + FactorWeights[2] + FactorWeights[3] = 100

\* the weight a loaded configuration gives for a key of [risk_scoring], the
\* default when the section or the key is not there
ConfiguredWeight(key, default) ==
    LET c == scorer[1].config
    IN  IF c.risk_scoring.is_dict /\ key \in DOMAIN c.risk_scoring.items
        THEN c.risk_scoring.items[key].value
        ELSE default

\* C7: a returned RiskScore has exactly the three factors SemVer Distance,
\* Usage Impact and Changelog Severity, in this order, carrying the
\* configured weights (0.3 / 0.5 / 0.2 by default), and its total_score is
\* the sum over the factors of score * weight.
C7_ThreeFactorsWeightedSum ==
    RiskReturned =>
        /\ Len(result.factors) = 3
        /\ result.factors[1].name = "SemVer Distance"
        /\ result.factors[2].name = "Usage Impact"
        /\ result.factors[3].name = "Changelog Severity"
        /\ result.factors[1].weight = ConfiguredWeight("semver_weight", 30)
        /\ result.factors[2].weight = ConfiguredWeight("usage_weight", 50)
        /\ result.factors[3].weight = ConfiguredWeight("changelog_weight", 20)
        /\ scorer[1].config = _get_defaults => DefaultWeights
        /\ LET f == result.factors
               t == result.total_score
           IN  \* t = (s1*w1 + s2*w2 + s3*w3) / 100, cross-multiplied
               t[1] * 100 * f[1].score[2] * f[2].score[2] * f[3].score[2]
                 = t[2] * ( f[1].score[1] * f[1].weight * f[2].score[2] * f[3].score[2]
                          + f[2].score[1] * f[2].weight * f[1].score[2] * f[3].score[2]
                          + f[3].score[1] * f[3].weight * f[1].score[2] * f[2].score[2])

\* weights 0.2 / 0.6 / 0.2 from a file, all three factor scores positive and
\* different
C7_Witness ==
    /\ RiskReturned
    /\ FactorWeights = <<20, 60, 20>>
    /\ \A i \in 1..3 : result.factors[i].score[1] > 0
    /\ result.factors[1].score # result.factors[2].score
    /\ result.factors[3].score = <<40, 1>>

\* total_score >= n
TotalAtLeast(n) == result.total_score[1] >= n * result.total_score[2]

ScenarioA ==
    /\ dependency = Upgrade(V(<<1, 0, 0>>), Some(V(<<3, 0, 0>>)))
    /\ Len(api_changes) = 1
    /\ MatchedChanges("removed") = {1}
    /\ changelog_entries = <<>>
    /\ DefaultWeights

ScenarioB ==
    /\ dependency = Upgrade(V(<<2, 28, 0>>), Some(V(<<2, 28, 1>>)))
    /\ api_changes = <<>>
    /\ changelog_entries = <<>>
    /\ DefaultWeights

\* C8: the severity of a returned RiskScore is Critical iff total >= 80,
\* High iff 60 <= total < 80, Medium iff 30 <= total < 60, Low iff total < 30;
\* 1.0.0 -> 3.0.0 with one Removed used symbol and no changelog totals
\* exactly 80 and is Critical; 2.28.0 -> 2.28.1 with no API changes and no
\* changelog is Low.
C8_SeverityThresholds ==
    RiskReturned =>
        /\ result.severity = "critical" <=> TotalAtLeast(80)
        /\ result.severity = "high" <=> (TotalAtLeast(60) /\ ~TotalAtLeast(80))
        /\ result.severity = "medium" <=> (TotalAtLeast(30) /\ ~TotalAtLeast(60))
        /\ result.severity = "low" <=> ~TotalAtLeast(30)
        /\ ScenarioA => (result.total_score = <<80, 1>> /\ result.severity = "critical")
        /\ ScenarioB => result.severity = "low"

\* scenario A: a total of exactly 80, on the Critical threshold
C8_Witness ==
    /\ RiskReturned
    /\ ScenarioA
    /\ usage_nodes # <<>>
    /\ result.total_score = <<80, 1>>
    /\ result.severity = "critical"

(***************************************************************************)
(* Claims about repeated calculate_risk calls, checked under SpecRepeat    *)
(***************************************************************************)
\* the number of positions of list that hold x
Occurrences(list, x) == Cardinality({i \in DOMAIN list : list[i] = x})

\* the two lists hold the same elements, in any order
SameElements(a, b) ==
    /\ Len(a) = Len(b)
    /\ \A i \in DOMAIN a : Occurrences(a, a[i]) = Occurrences(b, a[i])

\* what the caller wrote in an entry: its version and its text
Written(entries) ==
    [i \in DOMAIN entries |->
        [version |-> entries[i].version, content |-> entries[i].content]]

\* two calls with the same arguments, up to the order of the lists and up to
\* what an analysis left in severity_keywords
SameArguments(a, b) ==
    /\ a.dependency = b.dependency
    /\ SameElements(a.usage_nodes, b.usage_nodes)
    /\ SameElements(a.api_changes, b.api_changes)
    /\ SameElements(Written(a.changelog_entries), Written(b.changelog_entries))

C12_InputsUnchanged ==
    (pc = "returned" /\ history # <<>>) =>
        LET call == history[Len(history)]
        IN  /\ dependency = call.dependency
            /\ usage_nodes = call.usage_nodes
            /\ api_changes = call.api_changes
            /\ changelog_entries = call.changelog_entries

(***************************************************************************)
(* Claims about _detect_changes, checked under SpecDetect                  *)
(***************************************************************************)
DetectReturned == pc = "returned" /\ result.kind = "changes"

\* the name a path gives to a member of the package module: "get" for
\* "requests.get"
MemberName(path) == SubSeq(path, Len("requests.") + 1, Len(path))

\* the object a used symbol path stands for in the tree of a version, None
\* when the tree has none: the package module for "requests", the member
\* of that name otherwise
Resolved(version, path) ==
    LET module == packages[version][1]
    IN  IF path = "requests" THEN Some(module)
        ELSE IF MemberName(path) \in DOMAIN module.members
             THEN Some(module.members[MemberName(path)])
             ELSE None

UsedPaths == {usage_nodes[i].symbol_path : i \in DOMAIN usage_nodes}

\* the positions of the returned records for a path, of a type
RecordsOf(path, type) ==
    {i \in DOMAIN result.changes :
        /\ result.changes[i].symbol_name = path
        /\ result.changes[i].change_type = type}

RecordsFor(path) ==
    {i \in DOMAIN result.changes : result.changes[i].symbol_name = path}

\* the signature text of an object: its parameter list between parentheses
\* when it has one, else its str()
SignatureOf(obj) ==
    IF obj.has_parameters
    THEN IF Len(obj.parameters) = 1
         THEN "(" \o obj.parameters[1] \o ")"
         ELSE "(" \o obj.parameters[1] \o ", " \o obj.parameters[2] \o ")"
    ELSE obj.text

\* C14: for every used symbol that resolves in the old API and not in the
\* new one, the result holds exactly one record for that symbol, of type
\* Removed, and no Modified or Deprecated record for it.
C14_RemovedOnce ==
    DetectReturned =>
        \A path \in UsedPaths :
            (Resolved(OldVersion, path) # None /\ Resolved(NewVersion, path) = None)
            => /\ Cardinality(RecordsFor(path)) = 1
               /\ Cardinality(RecordsOf(path, "removed")) = 1
               /\ RecordsOf(path, "modified") = {}
               /\ RecordsOf(path, "deprecated") = {}

\* two usage nodes on one removed symbol: one Removed record, carrying the
\* old signature
C14_Witness ==
    /\ DetectReturned
    /\ Len(usage_nodes) = 2
    /\ usage_nodes[1].symbol_path = usage_nodes[2].symbol_path
    /\ Resolved(OldVersion, usage_nodes[1].symbol_path) # None
    /\ Resolved(NewVersion, usage_nodes[1].symbol_path) = None
    /\ Len(result.changes) = 1
    /\ result.changes[1].change_type = "removed"
    /\ result.changes[1].old_signature = Some("(url, timeout=None)")

\* C15: for every used symbol that resolves in both APIs, a Modified record
\* carrying both signatures is emitted iff the two signatures differ, a
\* Deprecated record is emitted iff the new symbol is flagged deprecated, no
\* Removed record is emitted, and each distinct path gives at most one
\* record of a type however many usage nodes share it.
C15_ModifiedAndDeprecated ==
    DetectReturned =>
        \A path \in UsedPaths :
            (Resolved(OldVersion, path) # None /\ Resolved(NewVersion, path) # None)
            => LET old == Resolved(OldVersion, path)[1]
                   new == Resolved(NewVersion, path)[1]
                   flagged ==
                       \/ /\ new.docstring # None
                          /\ \/ Contains(new.docstring[1], "deprecated")
                             \/ Contains(new.docstring[1], "Deprecated")
                       \/ \E i \in DOMAIN new.decorators :
                             Contains(new.decorators[i], "deprecated")
               IN  /\ (RecordsOf(path, "modified") # {})
                        <=> (SignatureOf(old) # SignatureOf(new))
                   /\ \A i \in RecordsOf(path, "modified") :
                         /\ result.changes[i].old_signature = Some(SignatureOf(old))
                         /\ result.changes[i].new_signature = Some(SignatureOf(new))
                   /\ (RecordsOf(path, "deprecated") # {}) <=> flagged
                   /\ RecordsOf(path, "removed") = {}
                   /\ Cardinality(RecordsOf(path, "modified")) <= 1
                   /\ Cardinality(RecordsOf(path, "deprecated")) <= 1
                   /\ Cardinality(RecordsFor(path)) <= 2

\* two usage nodes on one symbol whose signature changed and which is now
\* deprecated: one Modified and one Deprecated record
C15_Witness ==
    /\ DetectReturned
    /\ Len(usage_nodes) = 2
    /\ usage_nodes[1].symbol_path = usage_nodes[2].symbol_path
    /\ usage_nodes[1].symbol_path # "requests"
    /\ Len(result.changes) = 2
    /\ result.changes[1].change_type = "modified"
    /\ result.changes[1].old_signature = Some("(url)")
    /\ result.changes[1].new_signature = Some("(url, timeout=None)")
    /\ result.changes[2].change_type = "deprecated"

\* C16: a used symbol that does not resolve in the old API yields no record
\* at all, whether or not it resolves in the new API.
C16_AdditionsNotReported ==
    DetectReturned =>
        \A path \in UsedPaths :
            Resolved(OldVersion, path) = None => RecordsFor(path) = {}

\* a used symbol that only the new version has, next to a used symbol that
\* gives a record
C16_Witness ==
    /\ DetectReturned
    /\ \E path \in UsedPaths :
          /\ Resolved(OldVersion, path) = None
          /\ Resolved(NewVersion, path) # None
          /\ RecordsFor(path) = {}
    /\ result.changes # <<>>

(***************************************************************************)
(* Claims about the cached form of a diff, checked under SpecSerialize     *)
(***************************************************************************)
Deserialized == pc = "returned" /\ result.kind = "deserialized"

ReportedTypes == {"removed", "modified", "deprecated"}

\* C18: for every list of APIChange values of type Removed, Modified or
\* Deprecated (signatures possibly None, description possibly empty),
\* _deserialize_changes(_serialize_changes(list)) has the same length and
\* order, and its elements equal the originals in all five fields.
C18_RoundTrip ==
    (/\ Deserialized
     /\ \A i \in DOMAIN api_changes : api_changes[i].change_type \in ReportedTypes)
    => /\ Len(result.changes) = Len(api_changes)
       /\ \A i \in DOMAIN api_changes :
             /\ result.changes[i].symbol_name = api_changes[i].symbol_name
             /\ result.changes[i].change_type = api_changes[i].change_type
             /\ result.changes[i].old_signature = api_changes[i].old_signature
             /\ result.changes[i].new_signature = api_changes[i].new_signature
             /\ result.changes[i].description = api_changes[i].description

\* a Removed record without new signature and without description followed
\* by a Modified record with both signatures and a description
C18_Witness ==
    /\ Deserialized
    /\ Len(api_changes) = 2
    /\ api_changes[1].change_type = "removed"
    /\ api_changes[1].new_signature = None
    /\ api_changes[1].description = ""
    /\ api_changes[2].change_type = "modified"
    /\ api_changes[2].old_signature # None
    /\ api_changes[2].new_signature # None
    /\ api_changes[2].description # ""
    /\ result.changes = api_changes

(***************************************************************************)
(* Claims about the cache, checked under SpecCache                         *)
(***************************************************************************)
DiffFile == <<"api_diff", TestKey>>

\* a diff is stored under the key: a set wrote it and no delete or clear
\* has removed it since
DiffStored == DiffFile \in DOMAIN cache_files /\ cache_files[DiffFile].json

GotDiff(ttl_hours) ==
    /\ result.kind = "get"
    /\ result.key = TestKey
    /\ result.cache_type = "api_diff"
    /\ result.ttl_hours = ttl_hours

\* C19: an API-diff cache entry never expires: while a stored diff has not
\* been deleted or cleared, every Cache.get with ttl_hours=0 returns the
\* stored value, however old the entry is.
C19_DiffNeverExpires ==
    (GotDiff(0) /\ DiffStored) =>
        /\ result.value # None
        /\ result.value[1] \in CacheValues
        /\ result.value = cache_files[DiffFile].data.value

\* an entry two ticks old, far beyond 24 hours, returned by get with ttl 0
C19_Witness ==
    /\ GotDiff(0)
    /\ DiffStored
    /\ now - cache_files[DiffFile].mtime >= 2 * TickHours
    /\ result.value # None

(***************************************************************************)
(* Claims about diff_versions, checked under SpecDiffer                    *)
(***************************************************************************)
DiffReturned == pc = "returned" /\ result.kind = "diff"

\* C13 (as claimed): every APIChange returned by a diff_versions call has a
\* symbol_name that is the symbol_path of one of the used symbols passed to
\* that call, also when the call is answered from the cache.
C13_OnlyUsedSymbols ==
    DiffReturned =>
        \A i \in DOMAIN result.changes :
            \E j \in DOMAIN usage_nodes :
                usage_nodes[j].symbol_path = result.changes[i].symbol_name

\* the call could not compare the two versions
CoverageUnknown == outcome \in {"disabled", "offline", "unavailable", "error"}

\* what the caller receives from a successful diff that found no changes
NoChangesFound == [kind |-> "diff", changes |-> <<>>]

\* C17 (as claimed): when the old or the new snapshot cannot be loaded,
\* diff_versions returns an empty list and surfaces an unknown-coverage
\* flag, so that what the caller receives differs from what a successful
\* diff that found no changes gives.
C17_UnknownCoverageSurfaced ==
    (DiffReturned /\ CoverageUnknown) =>
        /\ result.changes = <<>>
        /\ result # NoChangesFound

(***************************************************************************)
(* Claims about the scanner, checked under SpecScan                        *)
(***************************************************************************)
\* open, read or ast.parse fails for the file
FailsToParse(file) == ~file.readable \/ ~file.parses

\* the files of the project that parse, in the order of discovery
RECURSIVE ParsingFiles(_)
ParsingFiles(k) ==
    IF k = 0 THEN <<>>
    ELSE IF FailsToParse(python_files[k])
         THEN ParsingFiles(k - 1)
         ELSE Append(ParsingFiles(k - 1), python_files[k])

\* C20: for a file that fails to parse, extract_imports gives {},
\* find_symbol_usage [], count_function_calls 0 and get_all_function_calls
\* {}; and map_package_usage returns what it returns for the project
\* without the files that fail to parse, so that no usage node of another
\* file is lost.
C20_BadFileGivesEmptyResults ==
    /\ (analyzer # None /\ FailsToParse(FileAt(analyzer[1].file_path))) =>
          /\ result.kind = "imports" => DOMAIN result.value = {}
          /\ result.kind = "call_sites" => Len(result.value) = 0
          /\ result.kind = "count" => result.value = 0
          /\ result.kind = "calls" => DOMAIN result.value = {}
          /\ analyzer[1]._tree = None
    /\ (pc = "returned" /\ result.kind = "usage_nodes") =>
          /\ result.value
               = map_package_usage(ParsingFiles(Len(python_files)), "requests")
          /\ \A i \in DOMAIN result.value :
                ~FailsToParse(FileAt(result.value[i].file_path))
          /\ \A k \in DOMAIN python_files :
                ~FailsToParse(python_files[k]) =>
                    \E i \in DOMAIN result.value :
                        result.value[i].file_path = python_files[k].path

\* a file with a syntax error discovered before a file that parses: the
\* usage node of the second file is returned, with its call counted
C20_Witness ==
    /\ pc = "returned"
    /\ result.kind = "usage_nodes"
    /\ Len(python_files) = 2
    /\ python_files[1].readable
    /\ ~python_files[1].parses
    /\ ~FailsToParse(python_files[2])
    /\ Len(result.value) = 1
    /\ result.value[1].file_path = python_files[2].path
    /\ result.value[1].call_count = 1

(***************************************************************************)
(* Claims about the analyzer of one file, checked under SpecResolve        *)
(***************************************************************************)
\* the statements of the file analysed
Tree == python_files[1].tree

\* an operation of the analyzer has returned
Resolved_(kind) == analyzer # None /\ result.kind = kind

\* the import statements of the file
ImportLines == {k \in DOMAIN Tree : Tree[k].type \in {"Import", "ImportFrom"}}

\* the call expressions of the file
CallLines == {k \in DOMAIN Tree : Tree[k].type = "Call"}

\* the names the file binds with `as`
AsNames ==
    UNION {{Tree[k].names[j].asname[1] :
                j \in {i \in DOMAIN Tree[k].names : Tree[k].names[i].asname # None}} :
           k \in ImportLines}

\* the segments of a dotted path
Segments(path) == {Split(path, ".")[i] : i \in DOMAIN Split(path, ".")}

\* C21: no usage node of extract_imports and no path reported by
\* get_all_function_calls holds a name the file bound with `as`: the paths
\* are built from the imported module and name, and a call through an alias
\* is reported under the canonical path.
C21_AliasesNeverLeak ==
    /\ Resolved_("imports") =>
          \A p \in DOMAIN result.value : \A i \in DOMAIN result.value[p] :
              /\ Segments(result.value[p][i].symbol_path) \cap AsNames = {}
              /\ result.value[p][i].package_name \notin AsNames
    /\ Resolved_("calls") =>
          \A path \in DOMAIN result.value : Segments(path) \cap AsNames = {}

\* the imported names of one statement, in order: package, path and line
ImportedBy(node) ==
    IF node.type = "Import"
    THEN [j \in DOMAIN node.names |->
            [package |-> FirstPart(node.names[j].name),
             path |-> node.names[j].name,
             lineno |-> node.lineno]]
    ELSE IF node.type = "ImportFrom" /\ node.module # None
    THEN [j \in DOMAIN node.names |->
            [package |-> FirstPart(node.module[1]),
             path |-> node.module[1] \o "." \o node.names[j].name,
             lineno |-> node.lineno]]
    ELSE <<>>

\* the imported names of the first k statements of the file
RECURSIVE ImportedUpTo(_)
ImportedUpTo(k) ==
    IF k = 0 THEN <<>> ELSE ImportedUpTo(k - 1) \o ImportedBy(Tree[k])

\* the imported names of the file under one package
ImportedUnder(package) ==
    LET Under(e) == e.package = package
    IN  SelectSeq(ImportedUpTo(Len(Tree)), Under)

\* C22: extract_imports gives, under the first segment of each imported
\* module, one usage node per imported name of every import statement, in
\* the order of the statements, with the path P, P.S or P.*; nothing is
\* merged.
C22_OneNodePerImportedName ==
    Resolved_("imports") =>
        LET imported == ImportedUpTo(Len(Tree))
        IN  /\ DOMAIN result.value = {imported[i].package : i \in DOMAIN imported}
            /\ \A p \in DOMAIN result.value :
                  /\ Len(result.value[p]) = Len(ImportedUnder(p))
                  /\ \A i \in DOMAIN result.value[p] :
                        result.value[p][i]
                          = [package_name |-> p,
                             symbol_path |-> ImportedUnder(p)[i].path,
                             file_path |-> python_files[1].path,
                             line_numbers |-> <<ImportedUnder(p)[i].lineno>>,
                             call_count |-> 0]

\* a symbol imported by two statements of the file: two nodes
C22_Witness ==
    /\ Resolved_("imports")
    /\ "numpy" \in DOMAIN result.value
    /\ Len(result.value["numpy"]) = 2
    /\ result.value["numpy"][1].symbol_path = "numpy.array"
    /\ result.value["numpy"][2].symbol_path = "numpy.array"
    /\ result.value["numpy"][1].line_numbers # result.value["numpy"][2].line_numbers

\* the lines of the call sites returned
ReportedLines == {result.value[i].line_number : i \in DOMAIN result.value}

\* all but the last segment of a dotted path
ModulePrefix(path) == JoinDots(Split(path, "."), Len(Split(path, ".")) - 1)

\* C23: find_symbol_usage(symbol_path) reports the call of a bare name
\* exactly when the symbol-alias map of the file takes the name to
\* symbol_path.
C23_BareNameIffResolved ==
    Resolved_("call_sites") =>
        \A k \in CallLines :
            Tree[k].func.type = "Name" =>
                (k \in ReportedLines
                 <=> /\ Tree[k].func.id \in DOMAIN analyzer[1]._symbol_aliases
                     /\ analyzer[1]._symbol_aliases[Tree[k].func.id]
                          = result.args[1])

\* C24: find_symbol_usage(symbol_path) reports an attribute call exactly
\* when the attribute is the last segment of symbol_path and the receiver
\* is a simple name the module-alias map of the file takes to the whole
\* prefix of symbol_path.
C24_AttributeIffModulePrefix ==
    Resolved_("call_sites") =>
        \A k \in CallLines :
            Tree[k].func.type = "Attribute" =>
                (k \in ReportedLines
                 <=> /\ Tree[k].func.attr = LastPart(result.args[1])
                     /\ Tree[k].func.value.type = "Name"
                     /\ Tree[k].func.value.id \in DOMAIN analyzer[1]._import_aliases
                     /\ analyzer[1]._import_aliases[Tree[k].func.value.id]
                          = ModulePrefix(result.args[1]))

\* a bare name after the symbol-alias map of the file
AliasResolved(id) ==
    IF id \in DOMAIN analyzer[1]._symbol_aliases
    THEN analyzer[1]._symbol_aliases[id]
    ELSE id

\* C25: count_function_calls(name) is the number of call expressions that
\* are a bare name resolving to a path ending in ".name" or an attribute
\* call of the attribute name; each call expression counts once.
C25_EachCallCountsOnce ==
    Resolved_("count") =>
        result.value
          = Cardinality({k \in CallLines :
                \/ /\ Tree[k].func.type = "Name"
                   /\ EndsWith(AliasResolved(Tree[k].func.id),
                               "." \o result.args[1])
                \/ /\ Tree[k].func.type = "Attribute"
                   /\ Tree[k].func.attr = result.args[1]})

(***************************************************************************)
(* Claims about the usage mapper, checked under SpecWorkers                *)
(***************************************************************************)
\* the files of the project in another order
Shuffled(p) == [i \in DOMAIN python_files |-> python_files[p[i]]]

\* every invocation has handed over all its nodes
AllDone == \A i \in DOMAIN workers : workers[i].pc = "done"

\* C26: the usage nodes of map_package_usage, as a multiset, and the
\* summary of get_usage_summary are the same for every order of the files,
\* and the nodes handed over by the interleaved invocations of the files
\* are that multiset too; an invocation holds the tree and the alias maps
\* of its own file only.
C26_OrderAndInterleavingIndependent ==
    /\ (pc = "returned" /\ result.kind = "usage_nodes") =>
          \A p \in Permutations(DOMAIN python_files) :
              SameElements(result.value,
                           map_package_usage(Shuffled(p), "requests"))
    /\ (pc = "returned" /\ result.kind = "summary") =>
          \A p \in Permutations(DOMAIN python_files) :
              result.value = get_usage_summary(Shuffled(p), "requests")
    /\ AllDone =>
          /\ SameElements(merged, map_package_usage(python_files, "requests"))
          /\ SummaryOf(merged) = get_usage_summary(python_files, "requests")
    /\ \A i \in DOMAIN workers :
          workers[i].analyzer # None =>
              LET self == workers[i].analyzer[1]
              IN  /\ self.file_path = python_files[i].path
                  /\ self._tree # None =>
                        /\ self._tree[1] = python_files[i].tree
                        /\ self = _build_alias_maps(
                                     [NewASTAnalyzer(python_files[i].path)
                                        EXCEPT !._tree = Some(python_files[i].tree)])

\* two files that import the package, their nodes handed over in the
\* order opposite to the order of discovery
C26_Witness ==
    /\ AllDone
    /\ Len(python_files) = 2
    /\ Len(merged) >= 3
    /\ merged[1].file_path = python_files[2].path
    /\ merged[Len(merged)].file_path = python_files[1].path
    /\ \E i \in DOMAIN merged : merged[i].call_count > 0

(***************************************************************************)
(* Claims about the lock of a key, checked under SpecLocks                 *)
(***************************************************************************)
\* the threads past the guarded block and its release
Released == {t \in DOMAIN threads : threads[t].pc \in {"done", "idle"}}

\* the descriptors the FileLocks of the threads hold
HeldFds ==
    {threads[t].lock._lock_fd[1] :
        t \in {u \in DOMAIN threads : threads[u].lock._lock_fd # None}}

\* C27: once the guarded block of a lock has ended, normally or by an
\* exception, and the release has run, _lock_fd is None and the descriptor
\* is closed: no descriptor is open that no lock holds, the lock of the
\* platform is held only through an open descriptor, and nothing is held
\* when no thread is in an operation, so that the next acquire succeeds.
C27_ReleasedOnEveryExit ==
    /\ \A t \in Released : threads[t].lock._lock_fd = None
    /\ fds = HeldFds
    /\ flock # None => flock[1] \in fds
    /\ Released = DOMAIN threads => (fds = {} /\ flock = None)

\* a thread left its block by an exception, holding the lock, and is done;
\* another thread has then acquired the lock of the same file
C27_Witness ==
    \E t, u \in DOMAIN threads :
        /\ t # u
        /\ threads[t].pc = "done"
        /\ threads[t].raised
        /\ threads[t].acquired
        /\ threads[t].op \in {"set", "with"}
        /\ platform # "none"
        /\ threads[u].pc = "locked"
        /\ threads[u].acquired
        /\ threads[u].passes > 0
        /\ flock = threads[u].lock._lock_fd

\* the threads inside the locked section of an operation on the key
InLockedSection ==
    {t \in DOMAIN threads :
        threads[t].pc = "locked" /\ threads[t].op \in {"get", "set", "delete"}}

\* C29: on a platform that has a file lock, at most one get, set or delete
\* on the key is inside its locked section at a time, also after a lock
\* acquisition that waited until its timeout.
C29_OneInLockedSection ==
    platform # "none" => Cardinality(InLockedSection) <= 1


(***************************************************************************)
(* Claims about the cache operations, checked under SpecCache              *)
(***************************************************************************)
CacheEnabled == _cache # None /\ _cache[1].enabled

\* what a get at the time at, with ttl_hours, is to return: the value last
\* set under the type and key when it is still there and not expired
ExpectedValue(cache_type, key, ttl_hours, at) ==
    LET entry == StoredAt(cache_type, key)
    IN  IF entry = None THEN None
        ELSE IF ttl_hours # 0 /\ at > entry[1].at + ttl_hours THEN None
        ELSE Some(entry[1].value)

\* the files that hold JSON
JsonFiles == {f \in DOMAIN cache_files : cache_files[f].json}

\* C28: in an enabled cache a get returns the value of the last successful
\* set under the same cache type and key that no delete of the key and no
\* clear of the type has followed, when the entry has not expired, and None
\* otherwise; the file of each type and key holds that value and nothing of
\* another type or key; a set with an unknown type returns False, a get
\* with an unknown type returns None, and no file stands for such a type.
C28_GetReturnsLastSet ==
    CacheEnabled =>
        /\ result.kind = "get" =>
              result.value = ExpectedValue(result.cache_type, result.key,
                                           result.ttl_hours, result.at)
        /\ JsonFiles = DOMAIN stored
        /\ \A f \in JsonFiles :
              /\ cache_files[f].data.value = Some(stored[f].value)
              /\ cache_files[f].mtime = stored[f].at
        /\ \A f \in DOMAIN cache_files : f[1] \in CacheTypes
        /\ (result.kind = "set" /\ result.cache_type \notin CacheTypes) =>
              ~result.ok
        /\ (result.kind = "get" /\ result.cache_type \notin CacheTypes) =>
              result.value = None

\* a get of the api_diff entry of a key returns the value set there some
\* time before, while the pypi entry of the same key holds another value
\* and the api_diff entry of the other key is gone
C28_Witness ==
    /\ CacheEnabled
    /\ result.kind = "get"
    /\ result.cache_type = "api_diff"
    /\ result.key = TestKey
    /\ result.value # None
    /\ StoredAt("pypi", TestKey) # None
    /\ StoredAt("pypi", TestKey)[1].value # result.value[1]
    /\ StoredAt("api_diff", OtherKey) = None
    /\ result.at > StoredAt("api_diff", TestKey)[1].at


(***************************************************************************)
(* Claims about _request_with_retry, checked under SpecHTTP                *)
(***************************************************************************)
Failed(answer) ==
    answer.kind # "response" \/ answer.status_code = 429
                             \/ answer.status_code >= 500

CallOver == http.pc \in {"returned", "raised"}

\* C30: a call of _request_with_retry sends at most max_retries + 1
\* requests; it returns only the response of its last request, whose status
\* is neither 429 nor 5xx; it raises only when every request it could send
\* has failed, so that a failure with attempts left is followed by the next
\* request and a success among them is returned.
C30_RetriesThenReturnsOrRaises ==
    /\ Len(http.outcomes) <= http.max_retries + 1
    /\ http.pc = "returned" =>
          /\ http.returned = Some(http.outcomes[Len(http.outcomes)])
          /\ ~Failed(http.returned[1])
    /\ http.pc = "raised" =>
          /\ Len(http.outcomes) = http.max_retries + 1
          /\ \A i \in DOMAIN http.outcomes : Failed(http.outcomes[i])
    /\ http.pc = "loop" =>
          \A i \in DOMAIN http.outcomes : Failed(http.outcomes[i])

====
